---- MODULE Spec2Model ----
(***************************************************************************)
(* Model of the FGIS backend synchronizer (backend_sync.py): the count     *)
(* driven reconciliation of the staging table `verifications` against the  *)
(* remote registry, the staging -> production promotion, the watermark     *)
(* transfer and the control flow of main().                                *)
(*                                                                         *)
(* Store model.  A table `verifications` is a function                     *)
(*     day -> (vri_id -> number of stored versions of that id on that day) *)
(* count() is the sum of the versions, count() ... FINAL the number of ids *)
(* with at least one version (ReplacingMergeTree keeps one row per key).   *)
(* All modelled days lie in one month partition, so OPTIMIZE ... PARTITION *)
(* FINAL collapses the versions of every modelled day.                     *)
(*                                                                         *)
(* Remote model.  For every day the registry answers a count query with    *)
(* remoteCount[d] and a cursor walk of the day with the documents          *)
(* remoteEnum[d]; a range count is the sum of its days.  The two may       *)
(* disagree (a stable total with a cursor that stops early, or a walk      *)
(* that returns more ids than the total).                                  *)
(***************************************************************************)
EXTENDS Integers, Sequences, FiniteSets, TLC

\* ---------------------------------------------------------------- bounds
NumDays == 3   \* days the model knows, 1..NumDays
NumIds == 2    \* business keys (vri_id) a day can hold
MaxVer == 2    \* stored versions of one key when reconcile starts
MaxRows == 3   \* rows of the staging table when reconcile starts
MaxClock == 3  \* ticks of the wall clock
MaxRuns == 3   \* transfer blocks of main
MaxDate == 2   \* calendar dates of the settings of main
MaxFetch == 4  \* pages one sync_vri_day call fetches
MaxInsRows == 4   \* rows handed to one CH.insert call
MaxBatch == 3     \* CH_INSERT_BATCH
MaxRetries == 2   \* CH_INSERT_RETRIES
MaxCount == 2     \* the total a count operation of the remote reports
MaxTime == 4      \* hours on the clock of sync_vri_scheduled
MaxEvery == 2     \* VRI_*_EVERY_HOURS
NumTiers == 2     \* tiers of the schedule that are followed
MaxItems == 2     \* elements of a list-shaped manufacturer source
MaxPage == 3      \* documents of one remote page
MaxPages == 2     \* pages of the registry listing
MaxEntries == 2   \* entries of one page of the registry listing

Days == 1..NumDays
Ids == 1..NumIds

VARIABLES
    local,        \* staging table verifications: [Days -> [Ids -> Nat]]
    remoteEnum,   \* ids the cursor walk of a day returns
    remoteCount,  \* what the count query reports for a day
    rc,           \* arguments of reconcile_vri_range (policy flags, range)
    stack,        \* pending calls of reconcile_vri_range, innermost first
    ok,           \* logical AND of the results returned so far
    deleted,      \* <<day, id>> pairs for which a DELETE was issued
    synced,       \* number of sync_vri_day calls per day
    local0,       \* the staging table when reconcile was called
    prod,         \* production table verifications: [Days -> [Ids -> Nat]]
    pr,           \* arguments of promote_vri_range
    cur,          \* promote_vri_range: the day the loop is at
    pok,          \* promote_vri_range: ok
    pdel,         \* days for which promote issued its DELETE
    pins,         \* days for which promote issued its INSERT ... SELECT
    prod0,        \* the production table when promote was called
    plog,         \* promote_vri_range: days examined, days that set ok = False
    now,          \* the wall clock (datetime.now()), in ticks
    src,          \* staging rows of a table, each row its ts_col (inserted_at)
    dst,          \* production rows of a table
    sync_state,   \* production sync_state: per key the last_run values written
    tt,           \* the transfer_table call in progress or last finished
    block,        \* the transfer block of main: where it is, what it decided
    runs,         \* transfer blocks started
    wall_keys,    \* sync_state keys written with datetime.now()
    mark_keys,    \* sync_state keys read by transfer_table as its watermark
    mpc,          \* main: the step of the run that comes next
    run_ok,       \* main: run_ok
    reconcile_ok, \* main: reconcile_ok
    menv,         \* main: the environment settings read by more than one step
    mlog,         \* main: what each step of the run did
    tier,         \* sync_vri_scheduled: position in the schedule
    resp,         \* remote cursor API of one day: cursor mark -> page, next cursor
    sy,           \* sync_vri_day: loop position, cursor_mark, pages fetched
    st,           \* the staging table of the run with skip_existing, and without
    snap,         \* st when the first sync_vri_day call returned
    ins,          \* CH.insert: the call in progress
    intr,         \* reconcile_vri_range: the run was interrupted and restarted
    cnt,          \* remote_vri_count: the client in hand and the outcome of the call
    sch,          \* sync_vri_scheduled: clock, recorded last runs, the tier in hand
    mit,          \* sync_mit_registry: the remote list, the loop position, the rows
    pg,           \* one page of documents being mapped to rows
    ctry,         \* _extract_country: the arguments and the result
    sr,           \* sync_vri_range: the day in hand and the calls made
    dl,           \* delete_vri_extras_for_day: the arguments and what the call did
    pf            \* promote_vri_range: days whose staging count could not be read

rvars == <<remoteEnum, remoteCount, rc, stack, ok, deleted, synced, local0>>
pvars == <<prod, pr, cur, pok, pdel, pins, prod0, plog>>
tvars == <<now, src, dst, sync_state, tt, block, runs, wall_keys, mark_keys>>
mvars == <<mpc, run_ok, reconcile_ok, menv, mlog, tier>>
svars == <<resp, sy, st, snap>>
wvars == <<dl, pf>>
zvars == <<cnt, sch, mit, pg, ctry, sr, wvars>>
yvars == <<svars, ins, intr, zvars>>
vars == <<local, rvars, pvars, tvars, mvars, yvars>>

\* ------------------------------------------------------------ pure helpers
Max(a, b) == IF a >= b THEN a ELSE b
Min(a, b) == IF a <= b THEN a ELSE b

RECURSIVE SumOver(_, _)
SumOver(f, S) ==
    IF S = {} THEN 0
    ELSE LET x == CHOOSE y \in S : TRUE IN f[x] + SumOver(f, S \ {x})

\* count() of one day, raw or FINAL
DayRows(tbl, d, final) ==
    IF final THEN Cardinality({i \in Ids : tbl[d][i] > 0})
    ELSE SumOver(tbl[d], Ids)

local_vri_rows_range(tbl, start, end, use_final) ==
    SumOver([d \in Days |-> DayRows(tbl, d, use_final)], start..end)

\* local_vri_stats: count() without FINAL
local_vri_stats(tbl, d) == DayRows(tbl, d, FALSE)

remote_vri_count(start, end) == SumOver(remoteCount, start..end)

remote_vri_ids_for_day(d) == remoteEnum[d]

local_vri_ids_for_day(tbl, d) == {i \in Ids : tbl[d][i] > 0}

\* faulty variant: the merge keeps every version
optimize_verifications_partition_keepAll(tbl) == tbl

\* OPTIMIZE TABLE ... PARTITION <month of d> FINAL
optimize_verifications_partition(tbl) ==
    [d \in Days |-> [i \in Ids |-> Min(tbl[d][i], 1)]]

existing_ids_for_date(tbl, d, ids) == {i \in ids : tbl[d][i] > 0}

NoId == 0   \* a document without vri_id

\* faulty variant: a page with any existing id is not inserted at all
RowsToInsert_dropPage(tbl, d, docs, skip_existing) ==
    LET ids == docs \ {NoId}
        existing == existing_ids_for_date(tbl, d, ids)
    IN IF skip_existing /\ existing # {} THEN {} ELSE ids

\* ids of the rows sync_vri_day inserts for one page `docs` of day d:
\* docs_to_insert drops the existing ids, build_vri_row drops empty ids
RowsToInsert(tbl, d, docs, skip_existing) ==
    LET ids == docs \ {NoId}
        existing == existing_ids_for_date(tbl, d, ids)
        docs_to_insert == IF skip_existing /\ existing # {}
                          THEN {doc \in docs : doc # NoId /\ doc \notin existing}
                          ELSE docs
    IN docs_to_insert \ {NoId}

\* ids of day d for which sync_vri_day inserts a row
SyncIds(tbl, d, skip_existing) == RowsToInsert(tbl, d, remoteEnum[d], skip_existing)

\* insert_verifications: one more version of each row
InsertRows(tbl, d, rows_to_insert) ==
    [tbl EXCEPT ![d] = [i \in Ids |-> IF i \in rows_to_insert THEN @[i] + 1 ELSE @[i]]]

sync_vri_day(tbl, d, skip_existing) ==
    InsertRows(tbl, d, SyncIds(tbl, d, skip_existing))

\* faulty variant: the day is backfilled whenever the remote has rows for it
SyncRangeDue_noSkip(tbl, d) == remoteCount[d] # 0

\* sync_vri_range calls sync_vri_day for day d
SyncRangeDue(tbl, d) ==
    /\ remoteCount[d] # 0
    /\ local_vri_stats(tbl, d) < remoteCount[d]

RECURSIVE sync_vri_range(_, _, _, _)
sync_vri_range(tbl, day, end, skip_existing) ==
    IF day > end THEN tbl
    ELSE IF SyncRangeDue(tbl, day)
         THEN sync_vri_range(sync_vri_day(tbl, day, skip_existing), day + 1, end, skip_existing)
         ELSE sync_vri_range(tbl, day + 1, end, skip_existing)

\* faulty variant: the set difference taken the wrong way round
ExtraIds_swapped(tbl, d, max_remote, remote_rows) ==
    IF max_remote # 0 /\ remote_rows # 0 /\ remote_rows > max_remote THEN {}
    ELSE IF max_remote # 0 /\ Cardinality(remote_vri_ids_for_day(d)) > max_remote THEN {}
    ELSE remote_vri_ids_for_day(d) \ local_vri_ids_for_day(tbl, d)

\* ids delete_vri_extras_for_day deletes on day d ({} when it skips)
ExtraIds(tbl, d, max_remote, remote_rows) ==
    IF max_remote # 0 /\ remote_rows # 0 /\ remote_rows > max_remote THEN {}
    ELSE IF max_remote # 0 /\ Cardinality(remote_vri_ids_for_day(d)) > max_remote THEN {}
    ELSE local_vri_ids_for_day(tbl, d) \ remote_vri_ids_for_day(d)

\* faulty variant: the partition is compacted although nothing was deleted
delete_vri_extras_for_day_alwaysOptimize(tbl, d, max_remote, optimize_partition, remote_rows) ==
    LET extra_ids == ExtraIds(tbl, d, max_remote, remote_rows)
        after == [tbl EXCEPT ![d] = [i \in Ids |-> IF i \in extra_ids THEN 0 ELSE @[i]]]
    IN IF optimize_partition THEN optimize_verifications_partition(after) ELSE after

delete_vri_extras_for_day(tbl, d, max_remote, optimize_partition, remote_rows) ==
    LET extra_ids == ExtraIds(tbl, d, max_remote, remote_rows)
        after == [tbl EXCEPT ![d] = [i \in Ids |-> IF i \in extra_ids THEN 0 ELSE @[i]]]
    IN IF extra_ids = {} THEN tbl
       ELSE IF optimize_partition THEN optimize_verifications_partition(after)
       ELSE after

\* ------------------------------------------------- reconcile_vri_range
Frame(s, e, depth) == [start |-> s, end |-> e, depth |-> depth]
Span(f) == f.end - f.start + 1
\* faulty variant: the split point is rounded up
Mid_roundedUp(f) == f.start + (Span(f) \div 2)

Mid(f) == f.start + ((Span(f) - 1) \div 2)
RemoteRows(f) == remote_vri_count(f.start, f.end)
LocalRows(f) == local_vri_rows_range(local, f.start, f.end, rc.use_final)
\* faulty variant: the depth limit is not looked at
IsLeaf_anyDepth(f) == Span(f) <= Max(1, rc.min_days)

IsLeaf(f) == Span(f) <= Max(1, rc.min_days) \/ f.depth >= rc.max_depth

RECURSIVE PerDay(_, _, _)
PerDay(day, end, depth) ==
    IF day > end THEN <<>> ELSE <<Frame(day, day, depth)>> \o PerDay(day + 1, end, depth)

\* faulty variant: the right half is never reconciled
Halves_leftOnly(f) == <<Frame(f.start, Mid(f), f.depth + 1)>>

Halves(f) == <<Frame(f.start, Mid(f), f.depth + 1), Frame(Mid(f) + 1, f.end, f.depth + 1)>>

Running == stack # <<>>
Returned == stack = <<>>

\* the call returns `res` without touching the store
Return(res) ==
    /\ stack' = Tail(stack)
    /\ ok' = (ok /\ res)
    /\ UNCHANGED <<local, yvars, remoteEnum, remoteCount, rc, deleted, synced, local0, pvars, tvars, mvars>>

\* the call is replaced by the calls it makes; its result is their AND
Recurse(calls) ==
    /\ stack' = calls \o Tail(stack)
    /\ UNCHANGED <<local, yvars, remoteEnum, remoteCount, rc, ok, deleted, synced, local0, pvars, tvars, mvars>>

\* start > end, remote = local = 0, or local = remote: return True
RcSkip ==
    /\ Running
    /\ LET f == Head(stack) IN
        \/ f.start > f.end
        \/ RemoteRows(f) = LocalRows(f)
    /\ Return(TRUE)

\* faulty variant: the drift is reported as reconciled
RcRefuse_returnsTrue ==
    /\ Running
    /\ LET f == Head(stack) IN
        /\ f.start <= f.end
        /\ ~rc.delete_extra
        /\ \/ RemoteRows(f) = 0 /\ LocalRows(f) > 0
           \/ RemoteRows(f) # 0 /\ IsLeaf(f) /\ LocalRows(f) > RemoteRows(f)
    /\ Return(TRUE)

\* drift that needs a delete while delete_extra is off: return False
RcRefuse ==
    /\ Running
    /\ LET f == Head(stack) IN
        /\ f.start <= f.end
        /\ ~rc.delete_extra
        /\ \/ RemoteRows(f) = 0 /\ LocalRows(f) > 0
           \/ RemoteRows(f) # 0 /\ IsLeaf(f) /\ LocalRows(f) > RemoteRows(f)
    /\ Return(FALSE)

\* not a leaf: bisect
RcBisect ==
    /\ Running
    /\ LET f == Head(stack) IN
        /\ f.start <= f.end
        /\ RemoteRows(f) # LocalRows(f)
        /\ ~IsLeaf(f)
        /\ RemoteRows(f) = 0 => rc.delete_extra
        /\ Recurse(Halves(f))

\* a leaf of several days with rows to delete: one call per day
RcPerDay ==
    /\ Running
    /\ LET f == Head(stack) IN
        /\ f.start <= f.end
        /\ IsLeaf(f)
        /\ Span(f) > 1
        /\ rc.delete_extra
        /\ LocalRows(f) > RemoteRows(f)
        /\ Recurse(PerDay(f.start, f.end, f.depth + 1))

\* faulty variant: the re-measured count is not compared with the remote count
VerifyAfter_noCheck(tbl, f, remote_rows) ==
    LET local_after == local_vri_rows_range(tbl, f.start, f.end, rc.use_final)
        again == local_after > remote_rows /\ rc.delete_extra /\ Span(f) = 1
        tbl2 == IF again
                THEN delete_vri_extras_for_day(tbl, f.start, rc.delete_max_remote,
                                               rc.optimize_partitions, remote_rows)
                ELSE tbl
        del2 == IF again
                THEN ExtraIds(tbl, f.start, rc.delete_max_remote, remote_rows)
                ELSE {}
    IN [tbl |-> tbl2, del |-> {<<f.start, i>> : i \in del2}, res |-> TRUE]

\* the verify_after block of a leaf, applied to the table `tbl` the repair left
VerifyAfter(tbl, f, remote_rows) ==
    LET local_after == local_vri_rows_range(tbl, f.start, f.end, rc.use_final)
        again == local_after > remote_rows /\ rc.delete_extra /\ Span(f) = 1
        tbl2 == IF again
                THEN delete_vri_extras_for_day(tbl, f.start, rc.delete_max_remote,
                                               rc.optimize_partitions, remote_rows)
                ELSE tbl
        del2 == IF again
                THEN ExtraIds(tbl, f.start, rc.delete_max_remote, remote_rows)
                ELSE {}
    IN [tbl |-> tbl2,
        del |-> {<<f.start, i>> : i \in del2},
        res |-> local_vri_rows_range(tbl2, f.start, f.end, rc.use_final) = remote_rows]

\* a single day with remote = 0 and stale local rows
RcZeroDay ==
    /\ Running
    /\ LET f == Head(stack)
           tbl == delete_vri_extras_for_day(local, f.start, rc.delete_max_remote,
                                            rc.optimize_partitions, 0)
           del == ExtraIds(local, f.start, rc.delete_max_remote, 0)
       IN
        /\ Span(f) = 1
        /\ RemoteRows(f) = 0
        /\ LocalRows(f) > 0
        /\ rc.delete_extra
        /\ local' = tbl
        /\ deleted' = deleted \cup {<<f.start, i>> : i \in del}
        /\ ok' = (ok /\ (~rc.verify_after
                         \/ local_vri_rows_range(tbl, f.start, f.end, rc.use_final) = 0))
        /\ stack' = Tail(stack)
        /\ UNCHANGED <<yvars, remoteEnum, remoteCount, rc, synced, local0, pvars, tvars, mvars>>

\* a leaf with local < remote: backfill the day or the days, then verify
RcLeafSync ==
    /\ Running
    /\ LET f == Head(stack)
           remote_rows == RemoteRows(f)
           one == Span(f) = 1
           tbl == IF one THEN sync_vri_day(local, f.start, rc.skip_existing)
                  ELSE sync_vri_range(local, f.start, f.end, rc.skip_existing)
           due == IF one THEN {f.start}
                  ELSE {d \in f.start..f.end : SyncRangeDue(local, d)}
           v == VerifyAfter(tbl, f, remote_rows)
       IN
        /\ f.start <= f.end
        /\ remote_rows # 0
        /\ IsLeaf(f)
        /\ LocalRows(f) < remote_rows
        /\ synced' = [d \in Days |-> IF d \in due THEN synced[d] + 1 ELSE synced[d]]
        /\ local' = (IF rc.verify_after THEN v.tbl ELSE tbl)
        /\ deleted' = (IF rc.verify_after THEN deleted \cup v.del ELSE deleted)
        /\ ok' = (ok /\ (rc.verify_after => v.res))
        /\ stack' = Tail(stack)
        /\ UNCHANGED <<yvars, remoteEnum, remoteCount, rc, local0, pvars, tvars, mvars>>

\* a single-day leaf with local > remote > 0: delete the extras, then verify
RcLeafDelete ==
    /\ Running
    /\ LET f == Head(stack)
           remote_rows == RemoteRows(f)
           tbl == delete_vri_extras_for_day(local, f.start, rc.delete_max_remote,
                                            rc.optimize_partitions, remote_rows)
           del == ExtraIds(local, f.start, rc.delete_max_remote, remote_rows)
           v == VerifyAfter(tbl, f, remote_rows)
       IN
        /\ Span(f) = 1
        /\ remote_rows # 0
        /\ LocalRows(f) > remote_rows
        /\ rc.delete_extra
        /\ local' = (IF rc.verify_after THEN v.tbl ELSE tbl)
        /\ deleted' = deleted \cup {<<f.start, i>> : i \in del}
                              \cup (IF rc.verify_after THEN v.del ELSE {})
        /\ ok' = (ok /\ (rc.verify_after => v.res))
        /\ stack' = Tail(stack)
        /\ UNCHANGED <<yvars, remoteEnum, remoteCount, rc, synced, local0, pvars, tvars, mvars>>

\* ---------------------------------------------------- promote_vri_range
EmptyTable == [d \in Days |-> [i \in Ids |-> 0]]

\* ALTER TABLE verifications DELETE WHERE verification_date = day
DeleteDay(tbl, d) == [tbl EXCEPT ![d] = [i \in Ids |-> 0]]

\* INSERT INTO dst.verifications SELECT * FROM src.verifications [FINAL] WHERE day
InsertSelectDay(to, from, d, dedup) ==
    [to EXCEPT ![d] =
        [i \in Ids |-> @[i] + (IF dedup THEN Min(from[d][i], 1) ELSE from[d][i])]]

PromoteRunning == cur <= pr.end
PromoteReturned == cur > pr.end

\* faulty variant: the result is the outcome of the last day examined
PromoteResult_lastDay ==
    plog.seen = <<>> \/ plog.seen[Len(plog.seen)] \notin plog.flagged

\* return ok
PromoteResult == pok

test_rows == local_vri_rows_range(local, cur, cur, pr.dedup)
prod_rows_final == local_vri_rows_range(prod, cur, cur, pr.dedup)
prod_rows_raw ==
    IF pr.dedup THEN local_vri_rows_range(prod, cur, cur, FALSE) ELSE prod_rows_final

\* faulty variant: the staging rows are counted raw whatever dedup says
needs_sync_stagingRaw ==
    local_vri_rows_range(local, cur, cur, FALSE) # prod_rows_final
        \/ (pr.dedup /\ prod_rows_raw # prod_rows_final)

needs_sync == test_rows # prod_rows_final \/ (pr.dedup /\ prod_rows_raw # prod_rows_final)

\* faulty variant: the cap is compared with the production count
OverMaxRows_prod == pr.max_rows # 0 /\ prod_rows_final > pr.max_rows

\* if max_rows and test_rows > max_rows
OverMaxRows == pr.max_rows # 0 /\ test_rows > pr.max_rows

\* faulty variant: dry_run is not read
DryRun_off == FALSE

\* if dry_run
DryRun == pr.dry_run

\* the day is consistent: next day
PrSkip ==
    /\ PromoteRunning
    /\ ~needs_sync
    /\ cur' = cur + 1
    /\ plog' = [plog EXCEPT !.seen = Append(@, cur)]
    /\ UNCHANGED <<local, yvars, rvars, prod, pr, pok, pdel, pins, prod0, tvars, mvars>>

\* the staging count exceeds max_rows: flag the failure, next day
PrOverMax ==
    /\ PromoteRunning
    /\ needs_sync
    /\ OverMaxRows
    /\ pok' = FALSE
    /\ cur' = cur + 1
    /\ plog' = [plog EXCEPT !.seen = Append(@, cur), !.flagged = @ \cup {cur}]
    /\ UNCHANGED <<local, yvars, rvars, prod, pr, pdel, pins, prod0, tvars, mvars>>

\* dry run: only log, next day
PrDryRun ==
    /\ PromoteRunning
    /\ needs_sync
    /\ ~OverMaxRows
    /\ DryRun
    /\ cur' = cur + 1
    /\ plog' = [plog EXCEPT !.seen = Append(@, cur)]
    /\ UNCHANGED <<local, yvars, rvars, prod, pr, pok, pdel, pins, prod0, tvars, mvars>>

\* faulty variant: the re-measured production counts are not compared
PromoteVerified_noCheck(after) == TRUE

\* the verify block: production as re-measured against test_rows
PromoteVerified(after) ==
    LET prod_after == local_vri_rows_range(after, cur, cur, pr.dedup)
        prod_after_raw ==
            IF pr.dedup THEN local_vri_rows_range(after, cur, cur, FALSE) ELSE prod_after
    IN ~(prod_after # test_rows \/ (pr.dedup /\ prod_after_raw # prod_after))

\* delete the day in production (if asked), insert the staging day, verify
PrSync ==
    /\ PromoteRunning
    /\ needs_sync
    /\ ~OverMaxRows
    /\ ~DryRun
    /\ LET cleared == IF pr.delete_before_insert THEN DeleteDay(prod, cur) ELSE prod
           after == IF test_rows > 0 THEN InsertSelectDay(cleared, local, cur, pr.dedup)
                    ELSE cleared
       IN /\ prod' = after
          /\ pdel' = (IF pr.delete_before_insert THEN pdel \cup {cur} ELSE pdel)
          /\ pins' = (IF test_rows > 0 THEN pins \cup {cur} ELSE pins)
          /\ pok' = (pok /\ (pr.verify => PromoteVerified(after)))
          /\ plog' = [plog EXCEPT !.seen = Append(@, cur), !.flagged =
                        IF pr.verify /\ ~PromoteVerified(after) THEN @ \cup {cur} ELSE @]
    /\ cur' = cur + 1
    /\ UNCHANGED <<local, yvars, rvars, pr, prod0, tvars, mvars>>

\* the staging count of the day fails: local_vri_rows_range returns 0, and the
\* turn of the loop goes on with test_rows = 0
PrCountFails ==
    /\ PromoteRunning
    /\ LET failed_needs_sync == 0 # prod_rows_final \/ (pr.dedup /\ prod_rows_raw # prod_rows_final)
           touches == failed_needs_sync /\ ~DryRun
           after == IF touches /\ pr.delete_before_insert THEN DeleteDay(prod, cur) ELSE prod
           prod_after == local_vri_rows_range(after, cur, cur, pr.dedup)
           prod_after_raw ==
               IF pr.dedup THEN local_vri_rows_range(after, cur, cur, FALSE) ELSE prod_after
           mismatch == touches /\ pr.verify
                       /\ (prod_after # 0 \/ (pr.dedup /\ prod_after_raw # prod_after))
       IN /\ prod' = after
          /\ pdel' = (IF touches /\ pr.delete_before_insert THEN pdel \cup {cur} ELSE pdel)
          /\ pok' = (pok /\ ~mismatch)
          /\ plog' = [plog EXCEPT !.seen = Append(@, cur),
                                  !.flagged = IF mismatch THEN @ \cup {cur} ELSE @]
    /\ pf' = pf \cup {cur}
    /\ cur' = cur + 1
    /\ UNCHANGED <<local, rvars, pr, pins, prod0, tvars, mvars, svars, ins, intr, cnt, sch, mit, pg, ctry, sr, dl>>

\* ------------------------------------------- transfer_table, transfer block
Tables == {"mit_registry", "verifications"}
StateKey == [mit_registry |-> "transfer_mit", verifications |-> "transfer_vri"]
Keys == {"transfer_mit", "transfer_vri", "transfer_prod"}
None == 0   \* no datetime; the ticks of the clock start at 1

SetMax(S) == CHOOSE x \in S : \A y \in S : y <= x
SeqRange(q) == {q[i] : i \in 1..Len(q)}

\* faulty variant: the last_run written last instead of max(last_run)
StateGet_latest(key) ==
    IF sync_state[key] = <<>> THEN None ELSE sync_state[key][Len(sync_state[key])]

\* _state_get when the query succeeds: SELECT max(last_run) ... WHERE key
StateGet(key) ==
    IF sync_state[key] = <<>> THEN None ELSE SetMax(SeqRange(sync_state[key]))

\* _state_set: one more row of sync_state
StateSet(state, key, when) == [state EXCEPT ![key] = Append(@, when)]

\* rows WHERE ts_col > last, or every row (WHERE 1) without a watermark
Pending(table, last) ==
    IF last # None THEN {ts \in src[table] : ts > last} ELSE src[table]

\* faulty variant: the watermark is set to the time of the run
MaxDt_now(table, last) == now

\* parse_datetime_any(max(ts_col) of the pending rows) or datetime.now()
MaxDt(table, last) ==
    IF Pending(table, last) # {} THEN SetMax(Pending(table, last)) ELSE now

Idle == [pc |-> "idle", table |-> "mit_registry", last |-> None, pending |-> 0,
         copied |-> {}, wrote |-> None]

\* transfer_table up to its early return: read the watermark (None when the
\* query fails), count the pending rows
TtStart(table, failed) ==
    LET last == IF failed THEN None ELSE StateGet(StateKey[table])
        pending == Cardinality(Pending(table, last))
    IN /\ tt' = [pc |-> IF pending = 0 THEN "done" ELSE "insert",
                 table |-> table, last |-> last, pending |-> pending,
                 copied |-> {}, wrote |-> None]
       /\ mark_keys' = mark_keys \cup {StateKey[table]}

\* INSERT INTO dst SELECT * FROM src WHERE ts_col > last
TtInsert ==
    /\ tt.pc = "insert"
    /\ dst' = [dst EXCEPT ![tt.table] = @ \cup Pending(tt.table, tt.last)]
    /\ tt' = [tt EXCEPT !.pc = "max", !.copied = Pending(tt.table, tt.last)]
    /\ UNCHANGED <<local, yvars, rvars, pvars, mvars, now, src, sync_state, block, runs, wall_keys, mark_keys>>

\* SELECT max(ts_col); _state_set(state_key, max_dt); return pending
TtMax ==
    /\ tt.pc = "max"
    /\ sync_state' = StateSet(sync_state, StateKey[tt.table], MaxDt(tt.table, tt.last))
    /\ tt' = [tt EXCEPT !.pc = "done", !.wrote = MaxDt(tt.table, tt.last)]
    /\ UNCHANGED <<local, yvars, rvars, pvars, mvars, now, src, dst, block, runs, wall_keys, mark_keys>>

\* main: the transfer block starts with transfer_table(mit_registry)
BlockStart ==
    /\ block.pc = "idle"
    /\ runs < MaxRuns
    /\ runs' = runs + 1
    /\ \E promote_vri \in BOOLEAN, failed \in BOOLEAN :
        /\ block' = [pc |-> "mit", promote_vri |-> promote_vri, promote |-> "none",
                     dry_run |-> FALSE]
        /\ TtStart("mit_registry", failed)
    /\ UNCHANGED <<local, yvars, rvars, pvars, mvars, now, src, dst, sync_state, wall_keys>>

\* main, PROMOTE_VRI off: transfer_table(verifications)
BlockTransferVri ==
    /\ block.pc = "mit"
    /\ tt.pc = "done"
    /\ ~block.promote_vri
    /\ block' = [block EXCEPT !.pc = "vri"]
    /\ \E failed \in BOOLEAN : TtStart("verifications", failed)
    /\ UNCHANGED <<local, yvars, rvars, pvars, mvars, now, src, dst, sync_state, runs, wall_keys>>

\* faulty variant: the marker is written after a dry run too
PromotionMarked_dryRun(called, promote_ok, promote_dry_run) == called /\ promote_ok

\* if not promote_ok: ... elif not promote_dry_run: _state_set("transfer_vri")
PromotionMarked(called, promote_ok, promote_dry_run) ==
    called /\ promote_ok /\ ~promote_dry_run

\* main, PROMOTE_VRI on: promotion is skipped, or promote_vri_range copies the
\* staging rows of its range and returns promote_ok; a promotion that returned
\* true and is not a dry run sets transfer_vri to datetime.now()
BlockPromote ==
    /\ block.pc = "mit"
    /\ tt.pc = "done"
    /\ block.promote_vri
    /\ \E called \in BOOLEAN, promote_ok \in BOOLEAN, promote_dry_run \in BOOLEAN,
          range \in SUBSET src["verifications"] :
        /\ block' = [block EXCEPT !.pc = "vri", !.dry_run = promote_dry_run,
                       !.promote = IF ~called THEN "skipped"
                                   ELSE IF promote_ok THEN "true" ELSE "false"]
        /\ dst' = (IF called /\ ~promote_dry_run
                   THEN [dst EXCEPT !["verifications"] = @ \cup range] ELSE dst)
        /\ IF PromotionMarked(called, promote_ok, promote_dry_run)
           THEN /\ sync_state' = StateSet(sync_state, "transfer_vri", now)
                /\ wall_keys' = wall_keys \cup {"transfer_vri"}
           ELSE UNCHANGED <<sync_state, wall_keys>>
    /\ UNCHANGED <<local, yvars, rvars, pvars, mvars, now, src, tt, runs, mark_keys>>

\* main: _state_set(ch_prod, "transfer_prod", datetime.now())
BlockDone ==
    /\ block.pc = "vri"
    /\ tt.pc = "done"
    /\ block' = [block EXCEPT !.pc = "idle", !.promote = "none", !.dry_run = FALSE]
    /\ sync_state' = StateSet(sync_state, "transfer_prod", now)
    /\ wall_keys' = wall_keys \cup {"transfer_prod"}
    /\ UNCHANGED <<local, yvars, rvars, pvars, mvars, now, src, dst, tt, runs, mark_keys>>

\* main: a step inside the try raises (transfer_table, promote_vri_range or a
\* _state_set); `except Exception` logs it and the block ends there
BlockRaises ==
    /\ block.pc \in {"mit", "vri"}
    /\ block' = [block EXCEPT !.pc = "idle", !.promote = "none", !.dry_run = FALSE]
    /\ tt' = Idle
    /\ UNCHANGED <<local, yvars, rvars, pvars, mvars, now, src, dst, sync_state, runs, wall_keys, mark_keys>>

\* time passes between and during runs
Tick ==
    /\ now < MaxClock
    /\ now' = now + 1
    /\ UNCHANGED <<local, yvars, rvars, pvars, mvars, src, dst, sync_state, tt, block, runs, wall_keys, mark_keys>>

\* between two runs the ingestion inserts a row with inserted_at = now()
SrcInsert ==
    /\ block.pc = "idle"
    /\ \E table \in Tables :
        /\ now \notin src[table]
        /\ src' = [src EXCEPT ![table] = @ \cup {now}]
    /\ UNCHANGED <<local, yvars, rvars, pvars, mvars, now, dst, sync_state, tt, block, runs, wall_keys, mark_keys>>

\* while a transfer block runs, the ingestion inserts a row with inserted_at = now()
SrcInsertDuring ==
    /\ block.pc # "idle"
    /\ \E table \in Tables :
        /\ now \notin src[table]
        /\ src' = [src EXCEPT ![table] = @ \cup {now}]
    /\ UNCHANGED <<local, yvars, rvars, pvars, mvars, now, dst, sync_state, tt, block, runs, wall_keys, mark_keys>>

\* ------------------------------------------------- main, sync_vri_scheduled
Schedule == <<"vri_hourly", "vri_daily", "vri_weekly", "vri_monthly">>
Tiers == 1..Len(Schedule)
Unset == 0   \* an empty setting, a date that is None
Dates == 1..MaxDate

\* reconcile_start = parse_ymd(RECONCILE_START_DATE) if set else start_date
reconcile_start ==
    IF menv.reconcile_start_env # Unset THEN menv.reconcile_start_env ELSE menv.start_date

\* reconcile_end = parse_ymd(RECONCILE_END_DATE) if set else end_date
reconcile_end ==
    IF menv.reconcile_end_env # Unset THEN menv.reconcile_end_env ELSE menv.end_date

\* promote_start: PROMOTE_START_DATE, else reconcile_start or start_date
promote_start(promote_start_env) ==
    IF promote_start_env # Unset THEN promote_start_env
    ELSE IF reconcile_start # Unset THEN reconcile_start ELSE menv.start_date

\* promote_end: PROMOTE_END_DATE, else reconcile_end or end_date
promote_end(promote_end_env) ==
    IF promote_end_env # Unset THEN promote_end_env
    ELSE IF reconcile_end # Unset THEN reconcile_end ELSE menv.end_date

\* if backfill_list: backfill_dates(...), an exception clears run_ok
MainBackfill ==
    /\ mpc = "backfill"
    /\ mpc' = "reconcile"
    /\ \E backfill_list \in BOOLEAN, raised \in BOOLEAN :
        /\ raised => backfill_list
        /\ run_ok' = (run_ok /\ ~raised)
        /\ mlog' = [mlog EXCEPT !.backfill =
                      IF ~backfill_list THEN "skipped" ELSE IF raised THEN "raised" ELSE "done"]
    /\ UNCHANGED <<local, yvars, rvars, pvars, tvars, reconcile_ok, menv, tier>>

\* if reconcile_vri: skip on an empty or invalid range, else
\* reconcile_ok = reconcile_vri_range(...); false or an exception clears run_ok
MainReconcile ==
    /\ mpc = "reconcile"
    /\ mpc' = "mit"
    /\ IF ~menv.reconcile_vri \/ reconcile_start = Unset \/ reconcile_start > reconcile_end
       THEN UNCHANGED <<run_ok, reconcile_ok, mlog>>
       ELSE \E outcome \in {"true", "false", "raised"} :
              /\ reconcile_ok' = (IF outcome = "raised" THEN reconcile_ok ELSE outcome = "true")
              /\ run_ok' = (run_ok /\ outcome = "true")
              /\ mlog' = [mlog EXCEPT !.reconcile = outcome]
    /\ UNCHANGED <<local, yvars, rvars, pvars, tvars, menv, tier>>

\* if sync_mit and the registry is due: sync_mit_registry(...), then its
\* last-run mark; an exception clears run_ok
MainMit ==
    /\ mpc = "mit"
    /\ mpc' = "vri"
    /\ \E sync_mit \in BOOLEAN, due \in BOOLEAN, raised \in BOOLEAN :
        /\ raised => (sync_mit /\ due)
        /\ run_ok' = (run_ok /\ ~raised)
        /\ mlog' = [mlog EXCEPT !.mit =
                      IF ~(sync_mit /\ due) THEN "skipped" ELSE IF raised THEN "raised" ELSE "done"]
    /\ UNCHANGED <<local, yvars, rvars, pvars, tvars, reconcile_ok, menv, tier>>

\* if sync_vri and not vri_scheduled: sync_vri_range from pick_start_date, or
\* nothing when SYNC_VRI is off; an exception clears run_ok
MainVriRange ==
    /\ mpc = "vri"
    /\ mpc' = "transfer"
    /\ \E sync_vri \in BOOLEAN, outcome \in {"skipped", "done", "raised"} :
        /\ ~sync_vri => outcome = "skipped"
        /\ run_ok' = (run_ok /\ outcome # "raised")
        /\ mlog' = [mlog EXCEPT !.vri = outcome]
    /\ UNCHANGED <<local, yvars, rvars, pvars, tvars, reconcile_ok, menv, tier>>

\* if sync_vri and vri_scheduled: sync_vri_scheduled(...) starts its loop; the
\* due tiers are those enabled, due by _should_run and with a non-empty range
MainVriScheduled ==
    /\ mpc = "vri"
    /\ mpc' = "tiers"
    /\ tier' = 1
    /\ \E due \in SUBSET Tiers : mlog' = [mlog EXCEPT !.vri = "scheduled", !.due = due]
    /\ UNCHANGED <<local, yvars, rvars, pvars, tvars, run_ok, reconcile_ok, menv>>

\* for key, every_hours, days in schedule: ... continue
TierContinue ==
    /\ mpc = "tiers"
    /\ tier \in Tiers
    /\ tier \notin mlog.due
    /\ tier' = tier + 1
    /\ UNCHANGED <<local, yvars, rvars, pvars, tvars, mpc, run_ok, reconcile_ok, menv, mlog>>

\* sync_vri_range(...) of a due tier, then _state_set(ch, key, now()); an
\* exception leaves the loop and the function and is caught in main
TierSync ==
    /\ mpc = "tiers"
    /\ tier \in Tiers
    /\ tier \in mlog.due
    /\ \E raised \in BOOLEAN :
        IF raised
        THEN /\ mpc' = "transfer"
             /\ run_ok' = FALSE
             /\ mlog' = [mlog EXCEPT !.vri = "raised", !.ran = @ \cup {tier}]
             /\ UNCHANGED tier
        ELSE /\ tier' = tier + 1
             /\ mlog' = [mlog EXCEPT !.ran = @ \cup {tier}, !.marked = @ \cup {tier}]
             /\ UNCHANGED <<mpc, run_ok>>
    /\ UNCHANGED <<local, yvars, rvars, pvars, tvars, reconcile_ok, menv>>

\* the loop of sync_vri_scheduled ends
TiersDone ==
    /\ mpc = "tiers"
    /\ tier \notin Tiers
    /\ mpc' = "transfer"
    /\ mlog' = [mlog EXCEPT !.vri = "done"]
    /\ UNCHANGED <<local, yvars, rvars, pvars, tvars, run_ok, reconcile_ok, menv, tier>>

\* the decision of the transfer block about promotion
PromoteDecision(promote_vri, promote_start_env, promote_end_env) ==
    IF ~promote_vri THEN "transfer_table"
    ELSE IF ~menv.reconcile_vri THEN "skipped"
    ELSE IF ~reconcile_ok THEN "skipped"
    ELSE IF \/ promote_start(promote_start_env) = Unset
            \/ promote_end(promote_end_env) = Unset
            \/ promote_start(promote_start_env) > promote_end(promote_end_env)
         THEN "skipped"
    ELSE "called"

\* if transfer_enabled: the gates of the block, transfer_table(mit_registry),
\* then promotion or transfer_table(verifications), then the transfer_prod mark
MainTransfer ==
    /\ mpc = "transfer"
    /\ mpc' = "done"
    /\ \E transfer_enabled \in BOOLEAN, due \in BOOLEAN, raised \in BOOLEAN,
          promote_vri \in BOOLEAN, promote_ok \in BOOLEAN,
          promote_start_env \in {Unset} \cup Dates, promote_end_env \in {Unset} \cup Dates :
        LET decision == PromoteDecision(promote_vri, promote_start_env, promote_end_env)
        IN IF ~transfer_enabled \/ ~due \/ ~run_ok
           THEN /\ ~raised /\ promote_ok
                /\ UNCHANGED <<run_ok, mlog>>
           ELSE IF raised
           THEN /\ promote_ok
                /\ mlog' = [mlog EXCEPT !.transfer = "raised"]
                /\ UNCHANGED run_ok
           ELSE /\ (decision # "called") => promote_ok
                /\ run_ok' = (decision = "transfer_table" \/ (decision = "called" /\ promote_ok))
                /\ mlog' = [mlog EXCEPT !.transfer = "done", !.promote =
                              IF decision = "called"
                              THEN (IF promote_ok THEN "true" ELSE "false")
                              ELSE "skipped"]
    /\ UNCHANGED <<local, yvars, rvars, pvars, tvars, reconcile_ok, menv, tier>>

\* ---------------------------------------------- sync_vri_day, page by page
Star == "*"
Absent == ""     \* no next cursor (None or an empty string)
Cursors == {Star, "c1", "c2"}
Pages == SUBSET ({NoId} \cup Ids)
SyncDay == 1

\* faulty variant: a repeated cursor does not end the loop
LastPage_noRepeat(next_cursor, cursor_mark) == next_cursor = Absent

\* if not next_cursor or next_cursor == cursor_mark: break
LastPage(next_cursor, cursor_mark) ==
    next_cursor = Absent \/ next_cursor = cursor_mark

SyFetching == sy.pc = "fetch" /\ Len(sy.fetched) < MaxFetch

\* client.vri_cursor returns no docs: break
SyEmpty ==
    /\ SyFetching
    /\ resp[sy.cursor_mark].docs = {}
    /\ sy' = [sy EXCEPT !.pc = "done", !.fetched = Append(@, sy.cursor_mark)]
    /\ UNCHANGED <<local, rvars, pvars, tvars, mvars, resp, st, snap, ins, intr, zvars>>

\* one page: probe, map, insert; then follow the cursor or break
SyPage ==
    /\ SyFetching
    /\ LET page == resp[sy.cursor_mark] IN
        /\ page.docs # {}
        /\ st' = [b \in BOOLEAN |->
                    InsertRows(st[b], SyncDay, RowsToInsert(st[b], SyncDay, page.docs, b))]
        /\ sy' = [sy EXCEPT
                    !.pc = IF LastPage(page.next, sy.cursor_mark) THEN "done" ELSE "fetch",
                    !.cursor_mark = IF LastPage(page.next, sy.cursor_mark) THEN @ ELSE page.next,
                    !.fetched = Append(@, sy.cursor_mark),
                    !.mapped = Append(@, sy.cursor_mark)]
    /\ UNCHANGED <<local, rvars, pvars, tvars, mvars, resp, snap, ins, intr, zvars>>

\* sync_vri_day is called again for the same day
SyAgain ==
    /\ sy.pc = "done"
    /\ sy.call = 1
    /\ snap' = st
    /\ sy' = [pc |-> "fetch", cursor_mark |-> Star, call |-> 2, fetched |-> <<>>,
              mapped |-> <<>>]
    /\ UNCHANGED <<local, rvars, pvars, tvars, mvars, resp, st, ins, intr, zvars>>

\* ------------------------------------------------------------- CH.insert
\* rows_data is the number of rows; start is the offset of the chunk in hand;
\* execs counts the executions of that chunk and sleeps lists the waits before
\* its retries, in tenths of a second; chunks lists the sizes of the chunks
\* the server accepted.

\* faulty variant: the same wait before every retry
Backoff_flat(attempt) == 15 * Min(attempt, 1)

\* time.sleep(1.5 * attempt), in tenths of a second
Backoff(attempt) == 15 * attempt

\* chunked(rows_data, batch_size): the slice that starts at `start`
ChunkLen(rows_data, batch_size, start) == Min(batch_size, rows_data - start)

\* client.execute succeeds: break, and on to the next chunk
InsExecuted ==
    /\ ins.pc = "exec"
    /\ LET next == ins.start + ins.batch_size IN
       ins' = [ins EXCEPT
                 !.chunks = Append(@, ChunkLen(ins.rows_data, ins.batch_size, ins.start)),
                 !.start = next,
                 !.attempt = IF next < ins.rows_data THEN 0 ELSE @,
                 !.execs = IF next < ins.rows_data THEN 0 ELSE @ + 1,
                 !.sleeps = IF next < ins.rows_data THEN <<>> ELSE @,
                 !.pc = IF next < ins.rows_data THEN "exec" ELSE "done"]
    /\ UNCHANGED <<local, rvars, pvars, tvars, mvars, svars, intr, zvars>>

\* client.execute raises NetworkError or SocketTimeoutError
InsNetworkFault ==
    /\ ins.pc = "exec"
    /\ LET attempt == ins.attempt + 1 IN
       ins' = [ins EXCEPT
                 !.execs = @ + 1,
                 !.attempt = attempt,
                 !.sleeps = IF attempt <= ins.retries THEN Append(@, Backoff(attempt)) ELSE @,
                 !.pc = IF attempt <= ins.retries THEN "exec" ELSE "raised",
                 !.fault = IF attempt <= ins.retries THEN @ ELSE "network"]
    /\ UNCHANGED <<local, rvars, pvars, tvars, mvars, svars, intr, zvars>>

\* client.execute raises anything else: not caught
InsOtherFault ==
    /\ ins.pc = "exec"
    /\ ins' = [ins EXCEPT !.execs = @ + 1, !.pc = "raised", !.fault = "other"]
    /\ UNCHANGED <<local, rvars, pvars, tvars, mvars, svars, intr, zvars>>

\* --------------------------------- reconcile_vri_range, killed and rerun
\* The run is killed between two statements it sends to the store and a fresh
\* run starts on the same range with the same flags: the call stack and the
\* result are gone, the table keeps what was written.
Rerun(tbl) ==
    /\ ~intr
    /\ intr' = TRUE
    /\ local' = tbl
    /\ stack' = <<Frame(rc.start, rc.end, 0)>>
    /\ ok' = TRUE
    /\ deleted' = {}
    /\ synced' = [d \in Days |-> 0]
    /\ UNCHANGED <<remoteEnum, remoteCount, rc, local0, pvars, tvars, mvars, svars, ins, zvars>>

\* killed between two calls of the recursion
KillBetweenCalls ==
    /\ Running
    /\ Rerun(local)

\* killed inside sync_vri_day, after the pages that hold the ids 1..n were
\* inserted and before the next page
KillInSync ==
    /\ Running
    /\ LET f == Head(stack) IN
        /\ Span(f) = 1
        /\ RemoteRows(f) # 0
        /\ LocalRows(f) < RemoteRows(f)
        /\ \E n \in 1..NumIds :
             /\ 1..n \subseteq remoteEnum[f.start]
             /\ 1..n # remoteEnum[f.start]
             /\ Rerun(InsertRows(local, f.start,
                                 RowsToInsert(local, f.start, 1..n, rc.skip_existing)))

\* killed inside delete_vri_extras_for_day, after the ALTER TABLE ... DELETE
\* and before the OPTIMIZE
KillInDelete ==
    /\ Running
    /\ LET f == Head(stack) IN
        /\ Span(f) = 1
        /\ LocalRows(f) > RemoteRows(f)
        /\ rc.delete_extra
        /\ rc.optimize_partitions
        /\ ExtraIds(local, f.start, rc.delete_max_remote, RemoteRows(f)) # {}
        /\ Rerun(delete_vri_extras_for_day(local, f.start, rc.delete_max_remote, FALSE,
                                           RemoteRows(f)))

RECURSIVE reconcile_vri_range(_, _, _, _)
RECURSIVE reconcile_days(_, _, _, _)

\* the per-day loop of a leaf of several days: ok = reconcile_vri_range(...) and ok
reconcile_days(tbl, day, end, depth) ==
    IF day > end THEN [tbl |-> tbl, res |-> TRUE]
    ELSE LET one == reconcile_vri_range(tbl, day, day, depth)
             rest == reconcile_days(one.tbl, day + 1, end, depth)
         IN [tbl |-> rest.tbl, res |-> one.res /\ rest.res]

\* reconcile_vri_range run to its return on table tbl: the table it leaves
\* and the value it returns
reconcile_vri_range(tbl, start, end, depth) ==
    LET f == Frame(start, end, depth)
        remote_rows == remote_vri_count(start, end)
        local_rows == local_vri_rows_range(tbl, start, end, rc.use_final)
        mid == Mid(f)
        left == reconcile_vri_range(tbl, start, mid, depth + 1)
        right == reconcile_vri_range(left.tbl, mid + 1, end, depth + 1)
        halves == [tbl |-> right.tbl, res |-> left.res /\ right.res]
        gone == delete_vri_extras_for_day(tbl, start, rc.delete_max_remote,
                                          rc.optimize_partitions, remote_rows)
        filled == IF Span(f) = 1 THEN sync_vri_day(tbl, start, rc.skip_existing)
                  ELSE sync_vri_range(tbl, start, end, rc.skip_existing)
        verified(t) == IF rc.verify_after
                       THEN [tbl |-> VerifyAfter(t, f, remote_rows).tbl,
                             res |-> VerifyAfter(t, f, remote_rows).res]
                       ELSE [tbl |-> t, res |-> TRUE]
    IN IF start > end THEN [tbl |-> tbl, res |-> TRUE]
       ELSE IF remote_rows = 0
       THEN IF local_rows = 0 THEN [tbl |-> tbl, res |-> TRUE]
            ELSE IF ~rc.delete_extra THEN [tbl |-> tbl, res |-> FALSE]
            ELSE IF IsLeaf(f)
                 THEN IF Span(f) = 1
                      THEN [tbl |-> gone,
                            res |-> ~rc.verify_after
                                    \/ local_vri_rows_range(gone, start, end, rc.use_final) = 0]
                      ELSE reconcile_days(tbl, start, end, depth + 1)
                 ELSE halves
       ELSE IF local_rows = remote_rows THEN [tbl |-> tbl, res |-> TRUE]
       ELSE IF IsLeaf(f)
            THEN IF local_rows < remote_rows THEN verified(filled)
                 ELSE IF ~rc.delete_extra THEN [tbl |-> tbl, res |-> FALSE]
                 ELSE IF Span(f) = 1 THEN verified(gone)
                 ELSE reconcile_days(tbl, start, end, depth + 1)
            ELSE halves

\* ------------------------------------------------------ remote_vri_count
\* What a call of the client can do: raise, return no value (None), return
\* something int() rejects, or return the number n.
Outcomes ==
    {[kind |-> k, n |-> 0] : k \in {"fault", "none", "text"}}
        \cup {[kind |-> "int", n |-> n] : n \in 0..MaxCount}

\* int(x or 0) goes through: x is None or a number
IntOrZeroOk(x) == x.kind \in {"none", "int"}

\* int(x or 0)
IntOrZero(x) == IF x.kind = "int" THEN x.n ELSE 0

\* hasattr(client, "vri_count") and the call and int() go through: return
CntCountReturns ==
    /\ cnt.pc = "count"
    /\ cnt.has_count
    /\ IntOrZeroOk(cnt.count_result)
    /\ cnt' = [cnt EXCEPT !.pc = "returned", !.value = IntOrZero(cnt.count_result),
                          !.calls = Append(@, "vri_count")]
    /\ UNCHANGED <<local, rvars, pvars, tvars, mvars, svars, ins, intr, wvars, sch, mit, pg, ctry, sr>>

\* no vri_count, or it raised (logged): on to the fallback
CntCountFalls ==
    /\ cnt.pc = "count"
    /\ ~(cnt.has_count /\ IntOrZeroOk(cnt.count_result))
    /\ cnt' = [cnt EXCEPT !.pc = "cursor",
                          !.calls = IF cnt.has_count THEN Append(@, "vri_count") ELSE @]
    /\ UNCHANGED <<local, rvars, pvars, tvars, mvars, svars, ins, intr, wvars, sch, mit, pg, ctry, sr>>

\* hasattr(client, "vri_cursor") and the rows=0 fetch goes through: return num_found
CntCursorReturns ==
    /\ cnt.pc = "cursor"
    /\ cnt.has_cursor
    /\ IntOrZeroOk(cnt.cursor_result)
    /\ cnt' = [cnt EXCEPT !.pc = "returned", !.value = IntOrZero(cnt.cursor_result),
                          !.calls = Append(@, "vri_cursor")]
    /\ UNCHANGED <<local, rvars, pvars, tvars, mvars, svars, ins, intr, wvars, sch, mit, pg, ctry, sr>>

\* no vri_cursor, or it raised (logged): raise RuntimeError
CntRaises ==
    /\ cnt.pc = "cursor"
    /\ ~(cnt.has_cursor /\ IntOrZeroOk(cnt.cursor_result))
    /\ cnt' = [cnt EXCEPT !.pc = "raised",
                          !.calls = IF cnt.has_cursor THEN Append(@, "vri_cursor") ELSE @]
    /\ UNCHANGED <<local, rvars, pvars, tvars, mvars, svars, ins, intr, wvars, sch, mit, pg, ctry, sr>>

\* ---------------------------------------- sync_vri_scheduled, run by run
\* sch.clock is the wall clock in hours, sch.now the datetime.now() taken when
\* the invocation started; sch.last[t] lists the last_run values written for
\* tier t; sch.runs lists the syncs started: the tier, the `now` of the
\* invocation, the last run recorded at that moment and the time written on
\* completion (None when the sync raised); sch.misread says a sync was
\* started on a failed read of the state.
SchTiers == 1..NumTiers

\* the recorded last run of tier t: max(last_run)
SchLast(t) == IF sch.last[t] = <<>> THEN None ELSE SetMax(SeqRange(sch.last[t]))

\* _state_get: None when the query raised
SchStateGet(t, failed) == IF failed THEN None ELSE SchLast(t)

\* _should_run
should_run(t, failed) ==
    SchStateGet(t, failed) = None \/ sch.now - SchStateGet(t, failed) >= sch.every[t]

SchLooping == sch.pc = "loop" /\ sch.tier \in SchTiers

\* time passes
SchTick ==
    /\ sch.pc # "off"
    /\ sch.clock < MaxTime
    /\ sch' = [sch EXCEPT !.clock = @ + 1]
    /\ UNCHANGED <<local, rvars, pvars, tvars, mvars, svars, ins, intr, wvars, cnt, mit, pg, ctry, sr>>

\* main calls sync_vri_scheduled: now = datetime.now()
SchStart ==
    /\ sch.pc = "idle"
    /\ sch.now < sch.clock
    /\ sch' = [sch EXCEPT !.pc = "loop", !.now = sch.clock, !.tier = 1]
    /\ UNCHANGED <<local, rvars, pvars, tvars, mvars, svars, ins, intr, wvars, cnt, mit, pg, ctry, sr>>

\* if every_hours <= 0 or days <= 0: continue
SchDisabled ==
    /\ SchLooping
    /\ sch.every[sch.tier] <= 0
    /\ sch' = [sch EXCEPT !.tier = @ + 1]
    /\ UNCHANGED <<local, rvars, pvars, tvars, mvars, svars, ins, intr, wvars, cnt, mit, pg, ctry, sr>>

\* if not _should_run(...): continue
SchNotDue ==
    /\ SchLooping
    /\ sch.every[sch.tier] > 0
    /\ ~should_run(sch.tier, FALSE)
    /\ sch' = [sch EXCEPT !.tier = @ + 1]
    /\ UNCHANGED <<local, rvars, pvars, tvars, mvars, svars, ins, intr, wvars, cnt, mit, pg, ctry, sr>>

\* due, but range_start > range_end: continue
SchEmptyWindow ==
    /\ SchLooping
    /\ sch.every[sch.tier] > 0
    /\ \E failed \in BOOLEAN : should_run(sch.tier, failed)
    /\ sch' = [sch EXCEPT !.tier = @ + 1]
    /\ UNCHANGED <<local, rvars, pvars, tvars, mvars, svars, ins, intr, wvars, cnt, mit, pg, ctry, sr>>

\* due: sync_vri_range over the window, which takes dt hours, then
\* _state_set(ch, key, datetime.now()); an exception of the sync leaves the
\* function
SchSync ==
    /\ SchLooping
    /\ sch.every[sch.tier] > 0
    /\ \E failed, raised \in BOOLEAN, dt \in 0..1 :
        /\ should_run(sch.tier, failed)
        /\ sch.clock + dt <= MaxTime
        /\ LET run == [tier |-> sch.tier, at |-> sch.now, last |-> SchLast(sch.tier),
                       done |-> IF raised THEN None ELSE sch.clock + dt]
           IN sch' = [sch EXCEPT
                        !.clock = @ + dt,
                        !.runs = Append(@, run),
                        !.misread = @ \/ (failed /\ ~should_run(sch.tier, FALSE)),
                        !.last[sch.tier] = IF raised THEN @ ELSE Append(@, sch.clock + dt),
                        !.pc = IF raised THEN "idle" ELSE @,
                        !.tier = IF raised THEN @ ELSE @ + 1]
    /\ UNCHANGED <<local, rvars, pvars, tvars, mvars, svars, ins, intr, wvars, cnt, mit, pg, ctry, sr>>

\* the schedule is exhausted: return
SchEnd ==
    /\ sch.pc = "loop"
    /\ sch.tier \notin SchTiers
    /\ sch' = [sch EXCEPT !.pc = "idle"]
    /\ UNCHANGED <<local, rvars, pvars, tvars, mvars, svars, ins, intr, wvars, cnt, mit, pg, ctry, sr>>

\* ---------------------------------------- _extract_country, detect_country
\* A field value is absent or empty (""), blank (" "), or a country name. A
\* manufacturer name is the set of the words in it, the empty string being {}.
Unspecified == "unspecified"    \* "Не указано"
Other == "other"                \* "Прочие"
FieldValues == {"", " ", "Japan", "Peru"}
Words == {"ACME", "GMBH", "RUSSIA"}
Rules == <<[needle |-> "RUSSIA", country |-> "Russia"],
           [needle |-> "GMBH", country |-> "Germany"]>>
CountryKeys == <<"country", "countryTitle">>
Dicts == [country : FieldValues, countryTitle : FieldValues]

RECURSIVE SeqsUpTo(_, _)
\* the sequences over S of length at most n
SeqsUpTo(S, n) ==
    IF n = 0 THEN {<<>>}
    ELSE SeqsUpTo(S, n - 1) \cup {Append(q, x) : q \in {p \in SeqsUpTo(S, n - 1) : Len(p) = n - 1}, x \in S}

Sources ==
    {[kind |-> "none"]}
        \cup {[kind |-> "dict", d |-> d] : d \in Dicts}
        \cup {[kind |-> "list", items |-> q] : q \in SeqsUpTo(Dicts, MaxItems)}

\* str(val).strip()
Strip(val) == IF val = " " THEN "" ELSE val

RECURSIVE FirstRule(_, _)
\* for needle, country in rules: if needle in s: return country
FirstRule(name, k) ==
    IF k > Len(Rules) THEN Other
    ELSE IF Rules[k].needle \in name THEN Rules[k].country
    ELSE FirstRule(name, k + 1)

detect_country(manuf_str) ==
    IF manuf_str = {} THEN Unspecified ELSE FirstRule(manuf_str, 1)

RECURSIVE FirstKey(_, _)
\* for key in (...): val = source.get(key); if val: return str(val).strip()
\* ("" when no key holds a value)
FirstKey(d, k) ==
    IF k > Len(CountryKeys) THEN ""
    ELSE IF d[CountryKeys[k]] # "" THEN Strip(d[CountryKeys[k]])
    ELSE FirstKey(d, k + 1)

HasKey(d) == \E k \in 1..Len(CountryKeys) : d[CountryKeys[k]] # ""

\* _extract_country(item, "") on a dict: no key, no fallback name: "Не указано"
ItemCountry(d) == IF HasKey(d) THEN FirstKey(d, 1) ELSE Unspecified

RECURSIVE FirstItem(_)
\* for item in source: val = _extract_country(item, ""); if val: return val
\* ("" when the loop ends)
FirstItem(items) ==
    IF items = <<>> THEN ""
    ELSE IF ItemCountry(Head(items)) # "" THEN ItemCountry(Head(items))
    ELSE FirstItem(Tail(items))

_extract_country(source, fallback_name) ==
    IF source.kind = "dict" /\ HasKey(source.d) THEN FirstKey(source.d, 1)
    ELSE IF source.kind = "list" /\ FirstItem(source.items) # "" THEN FirstItem(source.items)
    ELSE IF fallback_name # {} THEN detect_country(fallback_name)
    ELSE Unspecified

\* build_mit_row: country = _extract_country(manuf_source, manufacturer)
CtryExtract ==
    /\ ctry.pc = "call"
    /\ ctry' = [ctry EXCEPT !.pc = "done",
                            !.result = _extract_country(ctry.source, ctry.fallback_name)]
    /\ UNCHANGED <<local, rvars, pvars, tvars, mvars, svars, ins, intr, wvars, cnt, sch, mit, pg, sr>>

\* ------------------------------------------- one page of remote documents
\* A document is kept by the fields the row builders read for the key; a row
\* is kept by its key.
NoValue == "None"
NoRow == "no row"
KeyValues == {NoValue, "", " ", "k1", "k2"}
Truthy(v) == v \notin {NoValue, ""}
\* a or b
Or(a, b) == IF Truthy(a) THEN a ELSE b

VriDocs == [id : KeyValues]
MitDocs == [id : KeyValues, mit_uuid : BOOLEAN]
NoDetails == [number |-> NoValue, production_type |-> NoValue]
Details == [number : {NoValue, " ", "k2"}, production_type : {"1", "x"}]

\* faulty variant: the identifier is not stripped
build_vri_row_noStrip(doc) ==
    LET vri_id == Or(doc.id, "")
    IN IF vri_id = "" THEN NoRow ELSE vri_id

build_vri_row(doc) ==
    LET vri_id == Strip(Or(doc.id, ""))
    IN IF vri_id = "" THEN NoRow ELSE vri_id

\* int() of a non-numeric production_type raises, after the key was resolved
build_mit_row(list_doc, details) ==
    LET mit_number == Strip(Or(details.number, Or(list_doc.id, "")))
    IN IF mit_number = "" THEN [res |-> "none"]
       ELSE IF Or(details.production_type, "0") = "x" THEN [res |-> "raise"]
       ELSE [res |-> "row", key |-> mit_number]

\* CH.existing_ids: the given values that are stored, empty values left out
existing_ids(stored, ids) == {v \in ids : Truthy(v)} \cap stored

PgIds == {pg.docs[k].id : k \in 1..Len(pg.docs)}
PgDay == [d \in {1} |-> [i \in KeyValues |-> IF i \in pg.stored THEN 1 ELSE 0]]

\* sync_vri_day: the probe and the filter of one page
PgProbeVri ==
    /\ pg.pc = "page"
    /\ pg.kind = "vri"
    /\ LET ids == {i \in PgIds : Truthy(i)}
           existing == IF pg.skip_existing THEN existing_ids_for_date(PgDay, 1, ids) ELSE {}
           docs_to_insert ==
               IF existing # {}
               THEN SelectSeq(pg.docs, LAMBDA doc : Truthy(doc.id) /\ doc.id \notin existing)
               ELSE pg.docs
       IN pg' = [pg EXCEPT !.pc = "map", !.todo = docs_to_insert]
    /\ UNCHANGED <<local, rvars, pvars, tvars, mvars, svars, ins, intr, wvars, cnt, sch, mit, ctry, sr>>

\* sync_vri_day: one turn of `for doc in docs_to_insert`
PgMapVri ==
    /\ pg.pc = "map"
    /\ pg.kind = "vri"
    /\ pg.k <= Len(pg.todo)
    /\ LET doc == pg.todo[pg.k]
           row == build_vri_row(doc)
       IN pg' = [pg EXCEPT !.k = @ + 1,
                           !.buffer = IF row # NoRow THEN Append(@, row) ELSE @,
                           !.seen = Append(@, [doc |-> doc, details |-> NoDetails, row |-> row])]
    /\ UNCHANGED <<local, rvars, pvars, tvars, mvars, svars, ins, intr, wvars, cnt, sch, mit, ctry, sr>>

\* sync_vri_day: if rows_to_insert: insert_verifications
PgInsertVri ==
    /\ pg.pc = "map"
    /\ pg.kind = "vri"
    /\ pg.k > Len(pg.todo)
    /\ pg' = [pg EXCEPT !.pc = "done", !.inserted = @ \o pg.buffer, !.buffer = <<>>]
    /\ UNCHANGED <<local, rvars, pvars, tvars, mvars, svars, ins, intr, wvars, cnt, sch, mit, ctry, sr>>

\* sync_mit_registry: numbers, existing, missing_docs of one page
PgFilterMit ==
    /\ pg.pc = "page"
    /\ pg.kind = "mit"
    /\ LET numbers == {i \in PgIds : Truthy(i)}
           existing == IF numbers # {} THEN existing_ids(pg.stored, numbers) ELSE {}
           missing_docs == SelectSeq(pg.docs, LAMBDA doc : Truthy(doc.id) /\ doc.id \notin existing)
       IN pg' = [pg EXCEPT !.pc = IF missing_docs = <<>> THEN "done" ELSE "map",
                           !.todo = missing_docs]
    /\ UNCHANGED <<local, rvars, pvars, tvars, mvars, svars, ins, intr, wvars, cnt, sch, mit, ctry, sr>>

\* sync_mit_registry: one turn of `for doc in missing_docs`; a failed detail
\* fetch leaves details = {}
PgMapMit ==
    /\ pg.pc = "map"
    /\ pg.kind = "mit"
    /\ pg.k <= Len(pg.todo)
    /\ \E fetched \in Details \cup {NoDetails} :
        LET doc == pg.todo[pg.k]
            details == IF pg.fetch_details /\ doc.mit_uuid THEN fetched ELSE NoDetails
            built == build_mit_row(doc, details)
            row == IF built.res = "row" THEN built.key ELSE NoRow
            buffer == IF row # NoRow THEN Append(pg.buffer, row) ELSE pg.buffer
            flush == Len(buffer) >= pg.batch_size
        IN /\ fetched # NoDetails => pg.fetch_details /\ doc.mit_uuid
           /\ pg' = IF built.res = "raise"
                    THEN [pg EXCEPT !.pc = "raised",
                                    !.seen = Append(@, [doc |-> doc, details |-> details, row |-> NoRow])]
                    ELSE [pg EXCEPT !.k = @ + 1,
                                    !.buffer = IF flush THEN <<>> ELSE buffer,
                                    !.inserted = IF flush THEN @ \o buffer ELSE @,
                                    !.seen = Append(@, [doc |-> doc, details |-> details, row |-> row])]
    /\ UNCHANGED <<local, rvars, pvars, tvars, mvars, svars, ins, intr, wvars, cnt, sch, mit, ctry, sr>>

\* sync_mit_registry: if buffer: insert_mit_registry
PgFlushMit ==
    /\ pg.pc = "map"
    /\ pg.kind = "mit"
    /\ pg.k > Len(pg.todo)
    /\ pg' = [pg EXCEPT !.pc = "done", !.inserted = @ \o pg.buffer, !.buffer = <<>>]
    /\ UNCHANGED <<local, rvars, pvars, tvars, mvars, svars, ins, intr, wvars, cnt, sch, mit, ctry, sr>>

\* ---------------------------------------------- sync_mit_registry, a whole run
\* mit.pages is the remote listing, mit.p the page the cursor stands on, mit.k the
\* entry in hand, mit.stored the keys of table mit_registry, mit.log the entries
\* mapped so far; mit.ends tells whether the remote marks its last page.
MitEntries == {d \in MitDocs : d.id \in {"k1", "k2"}}
DetailAnswers == {d \in Details : d.number = NoValue}

MitLastPage == mit.p >= Len(mit.pages) /\ mit.ends
MitMissing(docs) ==
    LET numbers == {docs[k].id : k \in {j \in 1..Len(docs) : Truthy(docs[j].id)}}
        existing == IF numbers # {} THEN existing_ids(mit.stored, numbers) ELSE {}
    IN SelectSeq(docs, LAMBDA doc : Truthy(doc.id) /\ doc.id \notin existing)

\* client.mit_list_cursor raises: nothing catches it
MitPageFault ==
    /\ mit.pc = "fetch"
    /\ mit' = [mit EXCEPT !.pc = "raised", !.fault = "page"]
    /\ UNCHANGED <<local, rvars, pvars, tvars, mvars, svars, ins, intr, wvars, cnt, sch, pg, ctry, sr>>

\* if not docs: break
MitPageEmpty ==
    /\ mit.pc = "fetch"
    /\ mit.p > Len(mit.pages)
    /\ mit' = [mit EXCEPT !.pc = "done"]
    /\ UNCHANGED <<local, rvars, pvars, tvars, mvars, svars, ins, intr, wvars, cnt, sch, pg, ctry, sr>>

\* if not missing_docs: stop, or go on to the next page
MitPageNothingNew ==
    /\ mit.pc = "fetch"
    /\ mit.p <= Len(mit.pages)
    /\ MitMissing(mit.pages[mit.p]) = <<>>
    /\ mit' = IF mit.stop_on_existing THEN [mit EXCEPT !.pc = "done", !.stopped = TRUE]
              ELSE IF MitLastPage THEN [mit EXCEPT !.pc = "done"]
              ELSE [mit EXCEPT !.p = @ + 1]
    /\ UNCHANGED <<local, rvars, pvars, tvars, mvars, svars, ins, intr, wvars, cnt, sch, pg, ctry, sr>>

\* a page with new numbers: buffer = [], for doc in missing_docs
MitPageNew ==
    /\ mit.pc = "fetch"
    /\ mit.p <= Len(mit.pages)
    /\ MitMissing(mit.pages[mit.p]) # <<>>
    /\ mit' = [mit EXCEPT !.pc = "entries", !.todo = MitMissing(mit.pages[mit.p]),
                          !.k = 1, !.buffer = <<>>]
    /\ UNCHANGED <<local, rvars, pvars, tvars, mvars, svars, ins, intr, wvars, cnt, sch, pg, ctry, sr>>

\* the rest of one turn of the loop, once `details` is known
MitTurn(details, failed) ==
    LET doc == mit.todo[mit.k]
        built == build_mit_row(doc, details)
        buffer == IF built.res = "row" THEN Append(mit.buffer, built.key) ELSE mit.buffer
        flush == Len(buffer) >= mit.batch_size
        entry == [p |-> mit.p, number |-> doc.id, failed |-> failed]
    IN IF built.res = "raise"
       THEN [mit EXCEPT !.pc = "raised", !.fault = "row", !.log = Append(@, entry)]
       ELSE [mit EXCEPT !.k = @ + 1,
                        !.buffer = IF flush THEN <<>> ELSE buffer,
                        !.stored = IF flush THEN @ \cup SeqRange(buffer) ELSE @,
                        !.log = Append(@, entry)]

MitFetchesDetails ==
    /\ mit.pc = "entries"
    /\ mit.k <= Len(mit.todo)
    /\ mit.fetch_details
    /\ mit.todo[mit.k].mit_uuid

\* faulty variant: the fault of client.mit_details is not caught
MitDetailsFail_propagates ==
    /\ MitFetchesDetails
    /\ mit' = [mit EXCEPT !.pc = "raised", !.fault = "details",
                          !.log = Append(@, [p |-> mit.p, number |-> mit.todo[mit.k].id,
                                             failed |-> TRUE])]
    /\ UNCHANGED <<local, rvars, pvars, tvars, mvars, svars, ins, intr, wvars, cnt, sch, pg, ctry, sr>>

\* client.mit_details raises: logged, details stays {}
MitDetailsFail ==
    /\ MitFetchesDetails
    /\ mit' = MitTurn(NoDetails, TRUE)
    /\ UNCHANGED <<local, rvars, pvars, tvars, mvars, svars, ins, intr, wvars, cnt, sch, pg, ctry, sr>>

\* client.mit_details answers
MitDetailsOk ==
    /\ MitFetchesDetails
    /\ \E details \in DetailAnswers \cup {NoDetails} : mit' = MitTurn(details, FALSE)
    /\ UNCHANGED <<local, rvars, pvars, tvars, mvars, svars, ins, intr, wvars, cnt, sch, pg, ctry, sr>>

\* fetch_details is off or the entry has no mit_uuid
MitNoDetails ==
    /\ mit.pc = "entries"
    /\ mit.k <= Len(mit.todo)
    /\ ~(mit.fetch_details /\ mit.todo[mit.k].mit_uuid)
    /\ mit' = MitTurn(NoDetails, FALSE)
    /\ UNCHANGED <<local, rvars, pvars, tvars, mvars, svars, ins, intr, wvars, cnt, sch, pg, ctry, sr>>

\* after the loop: the last flush, then the cursor
MitPageDone ==
    /\ mit.pc = "entries"
    /\ mit.k > Len(mit.todo)
    /\ mit' = [mit EXCEPT !.stored = @ \cup SeqRange(mit.buffer),
                          !.buffer = <<>>,
                          !.pc = IF MitLastPage THEN "done" ELSE "fetch",
                          !.p = IF MitLastPage THEN @ ELSE @ + 1]
    /\ UNCHANGED <<local, rvars, pvars, tvars, mvars, svars, ins, intr, wvars, cnt, sch, pg, ctry, sr>>

\* main is invoked again: sync_mit_registry starts over from cursor "*" on
\* the table the first run left; a buffer that was not flushed is gone
MitRerun ==
    /\ mit.pc \in {"done", "raised"}
    /\ mit.run = 1
    /\ mit' = [mit EXCEPT !.pc = "fetch", !.run = 2, !.first = mit.log, !.stored1 = mit.stored,
                          !.p = 1, !.k = 1, !.todo = <<>>, !.buffer = <<>>, !.log = <<>>,
                          !.fault = "", !.stopped = FALSE]
    /\ UNCHANGED <<local, rvars, pvars, tvars, mvars, svars, ins, intr, wvars, cnt, sch, pg, ctry, sr>>

\* ------------------------------------------------ sync_vri_range, day by day
\* sr.cur is the day in hand; sr.calls lists the days sync_vri_day was called for.
SrRunning == sr.pc = "loop" /\ sr.cur <= sr.end

\* remote_rows == 0: next day
SrNoRemote ==
    /\ SrRunning
    /\ remote_vri_count(sr.cur, sr.cur) = 0
    /\ sr' = [sr EXCEPT !.cur = @ + 1]
    /\ UNCHANGED <<local, rvars, pvars, tvars, mvars, svars, ins, intr, wvars, cnt, sch, mit, pg, ctry>>

\* local_rows >= remote_rows: logged as OK, next day
SrEnough ==
    /\ SrRunning
    /\ remote_vri_count(sr.cur, sr.cur) # 0
    /\ ~SyncRangeDue(local, sr.cur)
    /\ sr' = [sr EXCEPT !.cur = @ + 1]
    /\ UNCHANGED <<local, rvars, pvars, tvars, mvars, svars, ins, intr, wvars, cnt, sch, mit, pg, ctry>>

\* NEED SYNC: sync_vri_day for the day, next day
SrSyncDay ==
    /\ SrRunning
    /\ SyncRangeDue(local, sr.cur)
    /\ local' = sync_vri_day(local, sr.cur, sr.skip_existing)
    /\ sr' = [sr EXCEPT !.cur = @ + 1, !.calls = Append(@, sr.cur)]
    /\ UNCHANGED <<rvars, pvars, tvars, mvars, svars, ins, intr, wvars, cnt, sch, mit, pg, ctry>>

\* cur > end: return
SrReturn ==
    /\ sr.pc = "loop"
    /\ sr.cur > sr.end
    /\ sr' = [sr EXCEPT !.pc = "done"]
    /\ UNCHANGED <<local, rvars, pvars, tvars, mvars, svars, ins, intr, wvars, cnt, sch, mit, pg, ctry>>

\* --------------------------------------- delete_vri_extras_for_day, one call
\* the call reads the local ids, deletes and returns len(extra_ids)
DlCall ==
    /\ dl.pc = "call"
    /\ LET extra_ids == ExtraIds(local, dl.d, dl.max_remote, dl.remote_rows)
       IN /\ local' = delete_vri_extras_for_day(local, dl.d, dl.max_remote,
                                                dl.optimize_partition, dl.remote_rows)
          /\ dl' = [dl EXCEPT !.pc = "done",
                              !.issued = {<<dl.d, i>> : i \in extra_ids},
                              !.ret = Cardinality(extra_ids)]
    /\ UNCHANGED <<rvars, pvars, tvars, mvars, svars, ins, intr, cnt, sch, mit, pg, ctry, sr, pf>>

\* the SELECT of local_vri_ids_for_day fails: local_ids = set(), nothing to delete
DlReadFails ==
    /\ dl.pc = "call"
    /\ ExtraIds(local, dl.d, dl.max_remote, dl.remote_rows) # {}
    /\ dl' = [dl EXCEPT !.pc = "done", !.read_failed = TRUE]
    /\ UNCHANGED <<local, rvars, pvars, tvars, mvars, svars, ins, intr, cnt, sch, mit, pg, ctry, sr, pf>>

\* ------------------------------- remote_vri_ids_for_day, one page per step
\* The remote holds dl.held for the day (ids 1..k, served in that order); the
\* cursor mark is the number of documents served so far, 0 standing for "*".
WalkDocs(c, rows) == {i \in dl.held : c < i /\ i <= c + rows}

\* a page of documents with a cursor that advanced: the walk goes on
WalkPage ==
    /\ dl.pc = "walk"
    /\ WalkDocs(dl.cursor_mark, dl.rows) # {}
    /\ dl' = [dl EXCEPT !.ids = @ \cup WalkDocs(dl.cursor_mark, dl.rows),
                        !.cursor_mark = @ + Cardinality(WalkDocs(dl.cursor_mark, dl.rows))]
    /\ UNCHANGED <<local, rvars, pvars, tvars, mvars, svars, ins, intr, cnt, sch, mit, pg, ctry, sr, pf>>

\* `if not docs: break`: the remote answers a page without documents, at the
\* end of the day's documents or before it
WalkNoDocs ==
    /\ dl.pc = "walk"
    /\ dl' = [dl EXCEPT !.pc = "call"]
    /\ remoteEnum' = [remoteEnum EXCEPT ![dl.d] = dl.ids]
    /\ UNCHANGED <<local, remoteCount, rc, stack, ok, deleted, synced, local0,
                   pvars, tvars, mvars, svars, ins, intr, cnt, sch, mit, pg, ctry, sr, pf>>

\* `if not next_cursor or next_cursor == cursor_mark: break`: the page carries
\* documents, its cursor is missing or did not advance
WalkStalls ==
    /\ dl.pc = "walk"
    /\ WalkDocs(dl.cursor_mark, dl.rows) # {}
    /\ dl' = [dl EXCEPT !.pc = "call",
                        !.ids = @ \cup WalkDocs(dl.cursor_mark, dl.rows)]
    /\ remoteEnum' = [remoteEnum EXCEPT ![dl.d] = dl.ids \cup WalkDocs(dl.cursor_mark, dl.rows)]
    /\ UNCHANGED <<local, remoteCount, rc, stack, ok, deleted, synced, local0,
                   pvars, tvars, mvars, svars, ins, intr, cnt, sch, mit, pg, ctry, sr, pf>>

\* ------------------------------------------------------------ specification
\* The ids of a day are interchangeable and unrelated to those of other days:
\* the remote ids of a day are taken to be 1..k and the stored versions are
\* ordered within the remote ids and within the others.
Canonical(row, k) ==
    \A i, j \in Ids :
        (i < j /\ ((i <= k /\ j <= k) \/ (i > k /\ j > k))) => row[i] >= row[j]

Prefixes == {1..k : k \in 0..NumIds}

InitStore ==
    /\ remoteEnum \in [Days -> Prefixes]
    /\ SumOver([d \in Days |-> Cardinality(remoteEnum[d])], Days) <= MaxRows
    /\ local \in [Days -> [Ids -> 0..MaxVer]]
    /\ \A d \in Days : Canonical(local[d], Cardinality(remoteEnum[d]))
    /\ local_vri_rows_range(local, 1, NumDays, FALSE) <= MaxRows

\* promote_vri_range is not running
NoPromote ==
    /\ prod = EmptyTable
    /\ pr = [dedup |-> TRUE, delete_before_insert |-> TRUE, verify |-> TRUE,
             dry_run |-> FALSE, max_rows |-> 0, start |-> 1, end |-> 0]
    /\ cur = 1
    /\ pok = TRUE
    /\ pdel = {}
    /\ pins = {}
    /\ prod0 = prod
    /\ plog = [seen |-> <<>>, flagged |-> {}]

\* reconcile_vri_range is not running
NoReconcile ==
    /\ remoteEnum = [d \in Days |-> {}]
    /\ remoteCount = [d \in Days |-> 0]
    /\ rc = [delete_extra |-> FALSE, delete_max_remote |-> 0, optimize_partitions |-> FALSE,
             verify_after |-> TRUE, use_final |-> FALSE, skip_existing |-> TRUE,
             min_days |-> 1, max_depth |-> 20, start |-> 1, end |-> 0]
    /\ stack = <<>>
    /\ ok = TRUE
    /\ deleted = {}
    /\ synced = [d \in Days |-> 0]
    /\ local0 = local

\* no transfer block has run
NoTransfer ==
    /\ now = 1
    /\ src = [t \in Tables |-> {}]
    /\ dst = [t \in Tables |-> {}]
    /\ sync_state = [k \in Keys |-> <<>>]
    /\ tt = Idle
    /\ block = [pc |-> "idle", promote_vri |-> FALSE, promote |-> "none", dry_run |-> FALSE]
    /\ runs = 0
    /\ wall_keys = {}
    /\ mark_keys = {}

\* main has not started
NoLog == [backfill |-> "skipped", reconcile |-> "skipped", mit |-> "skipped",
          vri |-> "skipped", due |-> {}, ran |-> {}, marked |-> {},
          transfer |-> "skipped", promote |-> "skipped"]

NoMain ==
    /\ mpc = "backfill"
    /\ run_ok = TRUE
    /\ reconcile_ok = TRUE
    /\ menv = [start_date |-> Unset, end_date |-> 1, reconcile_vri |-> FALSE,
               reconcile_start_env |-> Unset, reconcile_end_env |-> Unset]
    /\ mlog = NoLog
    /\ tier = 1

\* no sync_vri_day call, no CH.insert call, no interruption
NoSync ==
    /\ resp = [c \in Cursors |-> [docs |-> {}, next |-> Absent]]
    /\ sy = [pc |-> "done", cursor_mark |-> Star, call |-> 2, fetched |-> <<>>,
             mapped |-> <<>>]
    /\ st = [b \in BOOLEAN |-> EmptyTable]
    /\ snap = st

NoInsert ==
    ins = [pc |-> "done", rows_data |-> 0, batch_size |-> 1, retries |-> 0, start |-> 0,
           attempt |-> 0, execs |-> 0, sleeps |-> <<>>, chunks |-> <<>>, fault |-> "none"]

NoLater ==
    /\ dl = [pc |-> "off"]
    /\ pf = {}

\* none of the single functions is being run
NoSingle ==
    /\ cnt = [pc |-> "off"]
    /\ sch = [pc |-> "off"]
    /\ mit = [pc |-> "off"]
    /\ pg = [pc |-> "off"]
    /\ ctry = [pc |-> "off"]
    /\ sr = [pc |-> "off"]
    /\ NoLater

NoOther ==
    /\ NoSync
    /\ NoInsert
    /\ intr = FALSE
    /\ NoSingle

InitCall ==
    /\ NoPromote
    /\ NoTransfer
    /\ NoMain
    /\ NoOther
    /\ stack = <<Frame(rc.start, rc.end, 0)>>
    /\ ok = TRUE
    /\ deleted = {}
    /\ synced = [d \in Days |-> 0]
    /\ local0 = local

\* (min_days, max_depth): bisect down to days, stop at two-day leaves, stop at depth 1
Policies ==
    {[min_days |-> 1, max_depth |-> 20],
     [min_days |-> 2, max_depth |-> 20],
     [min_days |-> 1, max_depth |-> 1]}

\* the cap and the compaction are read on the delete paths only
Flags(caps) ==
    {r \in [delete_extra : BOOLEAN, delete_max_remote : caps,
            optimize_partitions : BOOLEAN, verify_after : BOOLEAN,
            use_final : BOOLEAN, skip_existing : BOOLEAN,
            min_days : {1, 2}, max_depth : {1, 20}, start : Days, end : Days] :
        /\ [min_days |-> r.min_days, max_depth |-> r.max_depth] \in Policies
        /\ ~r.delete_extra => (r.delete_max_remote = 0 /\ ~r.optimize_partitions)}

\* Spec: reconcile over a range of several days; the remote's totals agree
\* with its cursor walks.
Init ==
    /\ InitStore
    /\ remoteCount = [d \in Days |-> Cardinality(remoteEnum[d])]
    /\ rc \in {r \in Flags({0, 1}) : r.start < r.end}
    /\ InitCall

Next ==
    \/ RcSkip
    \/ RcRefuse
    \/ RcBisect
    \/ RcPerDay
    \/ RcZeroDay
    \/ RcLeafSync
    \/ RcLeafDelete

Spec == Init /\ [][Next]_vars

\* SpecBisect: the same call with no cap on deletes and the existence probe on;
\* the call is one thread of control: while it has a frame in hand it goes on.
InitBisect ==
    /\ InitStore
    /\ remoteCount = [d \in Days |-> Cardinality(remoteEnum[d])]
    /\ rc \in {r \in Flags({0}) : r.start < r.end /\ r.skip_existing}
    /\ InitCall

SpecBisect == InitBisect /\ [][Next]_vars /\ WF_vars(Next)

\* SpecDepth: the same call under small and ill-chosen depth limits
\* (RECONCILE_MAX_DEPTH is read with _env_int and passed on as it is).
DepthFlags ==
    {r \in [delete_extra : BOOLEAN, delete_max_remote : {0},
            optimize_partitions : {FALSE}, verify_after : BOOLEAN,
            use_final : BOOLEAN, skip_existing : {TRUE},
            min_days : {1, 2}, max_depth : {-1, 0, 1, 2}, start : Days, end : Days] :
        r.start < r.end}

InitDepth ==
    /\ InitStore
    /\ remoteCount = [d \in Days |-> Cardinality(remoteEnum[d])]
    /\ rc \in DepthFlags
    /\ InitCall

SpecDepth == InitDepth /\ [][Next]_vars

\* SpecDay: reconcile of one day; on that day the remote's total and its cursor
\* walk may disagree.
InitDay ==
    /\ InitStore
    /\ rc \in {r \in Flags({0, 1, 2}) : r.start = r.end /\ r.min_days = 1 /\ r.max_depth = 20}
    /\ remoteCount \in {c \in [Days -> 0..NumIds] :
                            \A d \in Days : d # rc.start => c[d] = Cardinality(remoteEnum[d])}
    /\ InitCall

NextDay ==
    \/ RcSkip
    \/ RcRefuse
    \/ RcZeroDay
    \/ RcLeafSync
    \/ RcLeafDelete

SpecDay == InitDay /\ [][NextDay]_vars

\* SpecPromote: promote_vri_range over a range of days, no concurrent writer.
\* The ids of a day are interchangeable: the staging versions are ordered.
PromoteFlags ==
    {r \in [dedup : BOOLEAN, delete_before_insert : BOOLEAN, verify : BOOLEAN,
            dry_run : BOOLEAN, max_rows : {0, 1}, start : Days, end : Days] :
        /\ r.start <= r.end
        /\ r.dry_run => (r.delete_before_insert /\ r.verify)}

InitPromote ==
    /\ local \in [Days -> [Ids -> 0..MaxVer]]
    /\ \A d \in Days : Canonical(local[d], 0)
    /\ local_vri_rows_range(local, 1, NumDays, FALSE) <= MaxRows
    /\ prod \in [Days -> [Ids -> 0..MaxVer]]
    /\ local_vri_rows_range(prod, 1, NumDays, FALSE) <= MaxRows
    /\ pr \in PromoteFlags
    /\ cur = pr.start
    /\ pok = TRUE
    /\ pdel = {}
    /\ pins = {}
    /\ prod0 = prod
    /\ plog = [seen |-> <<>>, flagged |-> {}]
    /\ NoReconcile
    /\ NoTransfer
    /\ NoMain
    /\ NoOther

NextPromote ==
    \/ PrSkip
    \/ PrOverMax
    \/ PrDryRun
    \/ PrSync

SpecPromote == InitPromote /\ [][NextPromote]_vars

\* SpecPromoteFault: promote_vri_range with staging counts that may fail.
NextPromoteFault ==
    \/ NextPromote
    \/ PrCountFails

SpecPromoteFault == InitPromote /\ [][NextPromoteFault]_vars

\* SpecTransfer: successive transfer blocks of main against staging tables that
\* the ingestion fills between the runs.
InitTransfer ==
    /\ local = EmptyTable
    /\ NoReconcile
    /\ NoPromote
    /\ NoTransfer
    /\ NoMain
    /\ NoOther

NextTransfer ==
    \/ BlockStart
    \/ TtInsert
    \/ TtMax
    \/ BlockTransferVri
    \/ BlockPromote
    \/ BlockDone
    \/ Tick
    \/ SrcInsert

SpecTransfer == InitTransfer /\ [][NextTransfer]_vars

\* SpecGate: the transfer blocks of SpecTransfer, any step of which may raise.
NextGate ==
    \/ NextTransfer
    \/ BlockRaises

SpecGate == InitTransfer /\ [][NextGate]_vars

\* SpecRace: the transfer blocks of SpecTransfer with an ingestion that also
\* writes to staging while a block runs.
NextRace ==
    \/ NextTransfer
    \/ SrcInsertDuring

SpecRace == InitTransfer /\ [][NextRace]_vars

\* SpecMain: one run of main under every setting of the environment and every
\* outcome of its steps.
InitMain ==
    /\ local = EmptyTable
    /\ NoReconcile
    /\ NoPromote
    /\ NoTransfer
    /\ mpc = "backfill"
    /\ run_ok = TRUE
    /\ reconcile_ok = TRUE
    /\ menv \in [start_date : {Unset} \cup Dates, end_date : Dates, reconcile_vri : BOOLEAN,
                  reconcile_start_env : {Unset} \cup Dates,
                  reconcile_end_env : {Unset} \cup Dates]
    /\ mlog = NoLog
    /\ tier = 1
    /\ NoOther

NextMain ==
    \/ MainBackfill
    \/ MainReconcile
    \/ MainMit
    \/ MainVriRange
    \/ MainVriScheduled
    \/ TierContinue
    \/ TierSync
    \/ TiersDone
    \/ MainTransfer

SpecMain == InitMain /\ [][NextMain]_vars

\* SpecSync: sync_vri_day called twice for one day against an unchanging
\* remote, on a table written with skip_existing and on one written without.
InitSync ==
    /\ local = EmptyTable
    /\ NoReconcile
    /\ NoPromote
    /\ NoTransfer
    /\ NoMain
    /\ NoInsert
    /\ intr = FALSE
    /\ NoSingle
    /\ resp \in [Cursors -> [docs : Pages, next : Cursors \cup {Absent}]]
    /\ \E row \in [Ids -> 0..1] :
         st = [b \in BOOLEAN |-> [EmptyTable EXCEPT ![SyncDay] = row]]
    /\ snap = st
    /\ sy = [pc |-> "fetch", cursor_mark |-> Star, call |-> 1, fetched |-> <<>>,
             mapped |-> <<>>]

NextSync ==
    \/ SyEmpty
    \/ SyPage
    \/ SyAgain

SpecSync == InitSync /\ [][NextSync]_vars

SpecSyncFair == SpecSync /\ WF_vars(NextSync)

\* SpecInsert: one CH.insert call against a server that may fail any execution.
InitInsert ==
    /\ local = EmptyTable
    /\ NoReconcile
    /\ NoPromote
    /\ NoTransfer
    /\ NoMain
    /\ NoSync
    /\ intr = FALSE
    /\ NoSingle
    /\ \E rows_data \in 0..MaxInsRows, batch_size \in 1..MaxBatch, retries \in 0..MaxRetries :
         ins = [pc |-> IF rows_data = 0 THEN "done" ELSE "exec",
                rows_data |-> rows_data, batch_size |-> batch_size, retries |-> retries,
                start |-> 0, attempt |-> 0, execs |-> 0, sleeps |-> <<>>, chunks |-> <<>>,
                fault |-> "none"]

NextInsert ==
    \/ InsExecuted
    \/ InsNetworkFault
    \/ InsOtherFault

SpecInsert == InitInsert /\ [][NextInsert]_vars

\* SpecRestart: a reconcile run that is killed at most once and rerun from the
\* top; verification on, bisection down to single days.
InitRestart ==
    /\ InitStore
    /\ remoteCount = [d \in Days |-> Cardinality(remoteEnum[d])]
    /\ rc \in {r \in Flags({0}) : r.start <= r.end /\ r.verify_after
                                    /\ r.min_days = 1 /\ r.max_depth = 20}
    /\ InitCall

NextRestart ==
    \/ RcSkip
    \/ RcRefuse
    \/ RcBisect
    \/ RcZeroDay
    \/ RcLeafSync
    \/ RcLeafDelete
    \/ KillBetweenCalls
    \/ KillInSync
    \/ KillInDelete

SpecRestart == InitRestart /\ [][NextRestart]_vars

\* SpecCount: one remote_vri_count call on every client and every outcome of
\* its two operations.
InitCount ==
    /\ local = EmptyTable
    /\ NoReconcile
    /\ NoPromote
    /\ NoTransfer
    /\ NoMain
    /\ NoSync
    /\ NoInsert
    /\ intr = FALSE
    /\ NoLater
    /\ sch = [pc |-> "off"]
    /\ mit = [pc |-> "off"]
    /\ pg = [pc |-> "off"]
    /\ ctry = [pc |-> "off"]
    /\ sr = [pc |-> "off"]
    /\ \E has_count, has_cursor \in BOOLEAN, count_result, cursor_result \in Outcomes :
         cnt = [pc |-> "count", has_count |-> has_count, count_result |-> count_result,
                has_cursor |-> has_cursor, cursor_result |-> cursor_result,
                value |-> 0, calls |-> <<>>]

NextCount ==
    \/ CntCountReturns
    \/ CntCountFalls
    \/ CntCursorReturns
    \/ CntRaises

SpecCount == InitCount /\ [][NextCount]_vars

\* SpecSchedule: sync_vri_scheduled invoked again and again while the clock
\* advances; a sync may raise, a read of the state may fail.
InitSchedule ==
    /\ local = EmptyTable
    /\ NoReconcile
    /\ NoPromote
    /\ NoTransfer
    /\ NoMain
    /\ NoSync
    /\ NoInsert
    /\ intr = FALSE
    /\ NoLater
    /\ cnt = [pc |-> "off"]
    /\ mit = [pc |-> "off"]
    /\ pg = [pc |-> "off"]
    /\ ctry = [pc |-> "off"]
    /\ sr = [pc |-> "off"]
    /\ \E every \in [SchTiers -> 0..MaxEvery] :
         sch = [pc |-> "idle", clock |-> 1, now |-> None, tier |-> 1, every |-> every,
                last |-> [t \in SchTiers |-> <<>>], runs |-> <<>>, misread |-> FALSE]

NextSchedule ==
    \/ SchTick
    \/ SchStart
    \/ SchDisabled
    \/ SchNotDue
    \/ SchEmptyWindow
    \/ SchSync
    \/ SchEnd

SpecSchedule == InitSchedule /\ [][NextSchedule]_vars

\* SpecCountry: _extract_country on every manufacturer source and name.
InitCountry ==
    /\ local = EmptyTable
    /\ NoReconcile
    /\ NoPromote
    /\ NoTransfer
    /\ NoMain
    /\ NoSync
    /\ NoInsert
    /\ intr = FALSE
    /\ NoLater
    /\ cnt = [pc |-> "off"]
    /\ sch = [pc |-> "off"]
    /\ mit = [pc |-> "off"]
    /\ pg = [pc |-> "off"]
    /\ sr = [pc |-> "off"]
    /\ \E source \in Sources, fallback_name \in SUBSET Words :
         ctry = [pc |-> "call", source |-> source, fallback_name |-> fallback_name,
                 result |-> ""]

NextCountry == CtryExtract

SpecCountry == InitCountry /\ [][NextCountry]_vars

\* SpecPage: one page of verifications through sync_vri_day, or one page of
\* registry entries through sync_mit_registry.
PgStart(kind, docs, stored, skip_existing, fetch_details, batch_size) ==
    [pc |-> "page", kind |-> kind, docs |-> docs, stored |-> stored,
     skip_existing |-> skip_existing, fetch_details |-> fetch_details,
     batch_size |-> batch_size, todo |-> <<>>, k |-> 1, buffer |-> <<>>,
     inserted |-> <<>>, seen |-> <<>>]

InitPage ==
    /\ local = EmptyTable
    /\ NoReconcile
    /\ NoPromote
    /\ NoTransfer
    /\ NoMain
    /\ NoSync
    /\ NoInsert
    /\ intr = FALSE
    /\ NoLater
    /\ cnt = [pc |-> "off"]
    /\ sch = [pc |-> "off"]
    /\ mit = [pc |-> "off"]
    /\ ctry = [pc |-> "off"]
    /\ sr = [pc |-> "off"]
    /\ \E stored \in SUBSET {"k1", "k2"} :
        \/ \E docs \in SeqsUpTo(VriDocs, MaxPage) \ {<<>>}, skip_existing \in BOOLEAN :
             pg = PgStart("vri", docs, stored, skip_existing, FALSE, MaxBatch)
        \/ \E docs \in SeqsUpTo(MitDocs, MaxPage) \ {<<>>}, fetch_details \in BOOLEAN,
              batch_size \in {1, MaxBatch} :
             pg = PgStart("mit", docs, stored, FALSE, fetch_details, batch_size)

NextPage ==
    \/ PgProbeVri
    \/ PgMapVri
    \/ PgInsertVri
    \/ PgFilterMit
    \/ PgMapMit
    \/ PgFlushMit

SpecPage == InitPage /\ [][NextPage]_vars

\* SpecMit: one run of sync_mit_registry over a listing of one or two pages.
InitMit ==
    /\ local = EmptyTable
    /\ NoReconcile
    /\ NoPromote
    /\ NoTransfer
    /\ NoMain
    /\ NoSync
    /\ NoInsert
    /\ intr = FALSE
    /\ NoLater
    /\ cnt = [pc |-> "off"]
    /\ sch = [pc |-> "off"]
    /\ pg = [pc |-> "off"]
    /\ ctry = [pc |-> "off"]
    /\ sr = [pc |-> "off"]
    /\ \E pages \in SeqsUpTo(SeqsUpTo(MitEntries, MaxEntries) \ {<<>>}, MaxPages) \ {<<>>},
          ends, fetch_details, stop_on_existing \in BOOLEAN,
          batch_size \in {1, MaxBatch}, stored \in {{}, {"k1"}} :
         mit = [pc |-> "fetch", pages |-> pages, ends |-> ends,
                fetch_details |-> fetch_details, stop_on_existing |-> stop_on_existing,
                batch_size |-> batch_size, stored |-> stored, p |-> 1, k |-> 1,
                todo |-> <<>>, buffer |-> <<>>, log |-> <<>>, fault |-> "",
                stopped |-> FALSE]

NextMit ==
    \/ MitPageFault
    \/ MitPageEmpty
    \/ MitPageNothingNew
    \/ MitPageNew
    \/ MitDetailsFail
    \/ MitDetailsOk
    \/ MitNoDetails
    \/ MitPageDone

SpecMit == InitMit /\ [][NextMit]_vars

\* SpecDelete: one call of delete_vri_extras_for_day; remote_rows is what the
\* caller measured (0 stands for None as well: both are falsy in the cap test).
InitDelete ==
    /\ InitStore
    /\ remoteCount = [d \in Days |-> Cardinality(remoteEnum[d])]
    /\ rc = [delete_extra |-> FALSE, delete_max_remote |-> 0, optimize_partitions |-> FALSE,
             verify_after |-> TRUE, use_final |-> FALSE, skip_existing |-> TRUE,
             min_days |-> 1, max_depth |-> 20, start |-> 1, end |-> 0]
    /\ stack = <<>>
    /\ ok = TRUE
    /\ deleted = {}
    /\ synced = [d \in Days |-> 0]
    /\ local0 = local
    /\ NoPromote
    /\ NoTransfer
    /\ NoMain
    /\ NoSync
    /\ NoInsert
    /\ intr = FALSE
    /\ cnt = [pc |-> "off"]
    /\ sch = [pc |-> "off"]
    /\ mit = [pc |-> "off"]
    /\ pg = [pc |-> "off"]
    /\ ctry = [pc |-> "off"]
    /\ sr = [pc |-> "off"]
    /\ \E d \in Days, max_remote \in 0..NumIds, optimize_partition \in BOOLEAN,
          remote_rows \in 0..(NumIds + 1) :
         dl = [pc |-> "call", d |-> d, max_remote |-> max_remote,
               optimize_partition |-> optimize_partition, remote_rows |-> remote_rows,
               issued |-> {}, ret |-> 0, read_failed |-> FALSE]
    /\ pf = {}

NextDelete ==
    \/ DlCall
    \/ DlReadFails

SpecDelete == InitDelete /\ [][NextDelete]_vars

\* SpecWalk: the deletion as reconcile_vri_range issues it for a single day
\* holding more rows than the remote reports: remote_rows is the remote's
\* total for the day, the ids come from a page-by-page walk.  remoteEnum[d]
\* starts as the keys the remote holds and ends as what the walk returned.
InitWalk ==
    /\ InitStore
    /\ remoteCount = [d \in Days |-> Cardinality(remoteEnum[d])]
    /\ rc = [delete_extra |-> TRUE, delete_max_remote |-> 0, optimize_partitions |-> FALSE,
             verify_after |-> TRUE, use_final |-> FALSE, skip_existing |-> TRUE,
             min_days |-> 1, max_depth |-> 20, start |-> 1, end |-> 0]
    /\ stack = <<>>
    /\ ok = TRUE
    /\ deleted = {}
    /\ synced = [d \in Days |-> 0]
    /\ local0 = local
    /\ NoPromote
    /\ NoTransfer
    /\ NoMain
    /\ NoSync
    /\ NoInsert
    /\ intr = FALSE
    /\ cnt = [pc |-> "off"]
    /\ sch = [pc |-> "off"]
    /\ mit = [pc |-> "off"]
    /\ pg = [pc |-> "off"]
    /\ ctry = [pc |-> "off"]
    /\ sr = [pc |-> "off"]
    /\ \E d \in Days, max_remote \in 0..NumIds, optimize_partition \in BOOLEAN, rows \in 1..NumIds :
         /\ local_vri_stats(local, d) > remoteCount[d]
         /\ dl = [pc |-> "walk", d |-> d, max_remote |-> max_remote,
                  optimize_partition |-> optimize_partition, remote_rows |-> remoteCount[d],
                  issued |-> {}, ret |-> 0, read_failed |-> FALSE,
                  held |-> remoteEnum[d], rows |-> rows, cursor_mark |-> 0, ids |-> {}]
    /\ pf = {}

NextWalk ==
    \/ WalkPage
    \/ WalkNoDocs
    \/ WalkStalls
    \/ DlCall
    \/ DlReadFails

SpecWalk == InitWalk /\ [][NextWalk]_vars

\* SpecMitRerun: two runs of sync_mit_registry, one after the other, over the
\* same listing of the remote; the table starts empty.
InitMitRerun ==
    /\ local = EmptyTable
    /\ NoReconcile
    /\ NoPromote
    /\ NoTransfer
    /\ NoMain
    /\ NoSync
    /\ NoInsert
    /\ intr = FALSE
    /\ NoLater
    /\ cnt = [pc |-> "off"]
    /\ sch = [pc |-> "off"]
    /\ pg = [pc |-> "off"]
    /\ ctry = [pc |-> "off"]
    /\ sr = [pc |-> "off"]
    /\ \E pages \in SeqsUpTo(SeqsUpTo(MitEntries, MaxEntries) \ {<<>>}, MaxPages) \ {<<>>},
          ends, fetch_details, stop_on_existing \in BOOLEAN, batch_size \in {1, MaxBatch} :
         mit = [pc |-> "fetch", pages |-> pages, ends |-> ends,
                fetch_details |-> fetch_details, stop_on_existing |-> stop_on_existing,
                batch_size |-> batch_size, stored |-> {}, p |-> 1, k |-> 1,
                todo |-> <<>>, buffer |-> <<>>, log |-> <<>>, fault |-> "",
                stopped |-> FALSE, run |-> 1, first |-> <<>>, stored1 |-> {}]

NextMitRerun ==
    \/ NextMit
    \/ MitRerun

SpecMitRerun == InitMitRerun /\ [][NextMitRerun]_vars

\* SpecRange: one sync_vri_range call over a range of days; the remote's
\* totals agree with its cursor walks.
InitRange ==
    /\ InitStore
    /\ remoteCount = [d \in Days |-> Cardinality(remoteEnum[d])]
    /\ rc = [delete_extra |-> FALSE, delete_max_remote |-> 0, optimize_partitions |-> FALSE,
             verify_after |-> TRUE, use_final |-> FALSE, skip_existing |-> TRUE,
             min_days |-> 1, max_depth |-> 20, start |-> 1, end |-> 0]
    /\ stack = <<>>
    /\ ok = TRUE
    /\ deleted = {}
    /\ synced = [d \in Days |-> 0]
    /\ local0 = local
    /\ NoPromote
    /\ NoTransfer
    /\ NoMain
    /\ NoSync
    /\ NoInsert
    /\ intr = FALSE
    /\ NoLater
    /\ cnt = [pc |-> "off"]
    /\ sch = [pc |-> "off"]
    /\ mit = [pc |-> "off"]
    /\ pg = [pc |-> "off"]
    /\ ctry = [pc |-> "off"]
    /\ \E start, end \in Days, skip_existing \in BOOLEAN :
         /\ start <= end
         /\ sr = [pc |-> "loop", start |-> start, end |-> end, cur |-> start,
                  skip_existing |-> skip_existing, calls |-> <<>>]

NextRange ==
    \/ SrNoRemote
    \/ SrEnough
    \/ SrSyncDay
    \/ SrReturn

SpecRange == InitRange /\ [][NextRange]_vars

\* ------------------------------------------------------------------ claims
InRange(d) == d \in rc.start..rc.end
DayOk(d) == DayRows(local, d, rc.use_final) = remoteCount[d]
RangeOk ==
    local_vri_rows_range(local, rc.start, rc.end, rc.use_final)
        = remote_vri_count(rc.start, rc.end)
NoCap == rc.delete_extra /\ rc.delete_max_remote = 0

\* C1 as stated: with allowDelete and no cap, a reconcile that returned true
\* left local count = remote count on every day of the range.
C1_Original ==
    (Returned /\ NoCap /\ ok) => \A d \in Days : InRange(d) => DayOk(d)

\* C1 (amended): with allowDelete, no cap, verify_after, and counts that the
\* compaction cannot change (use_final on or optimize_partitions off): a true
\* result means the local count of the whole range equals its remote count, and
\* a false result means some day of the range still differs from the remote.
C1_Convergence ==
    (Returned /\ NoCap /\ rc.verify_after /\ (rc.use_final \/ ~rc.optimize_partitions))
        => /\ ok => RangeOk
           /\ ~ok => \E d \in Days : InRange(d) /\ ~DayOk(d)

C1_Witness ==
    /\ Returned /\ NoCap /\ rc.verify_after /\ ~rc.optimize_partitions /\ ok
    /\ deleted # {}
    /\ \E d \in Days : synced[d] > 0
    /\ RangeOk

Drift0(d) == DayRows(local0, d, rc.use_final) # remoteCount[d]
OneDrift(d) ==
    /\ rc.start < d /\ d < rc.end
    /\ Drift0(d)
    /\ \A e \in Days : (InRange(e) /\ e # d) => ~Drift0(e)

CapTrips(d) ==
    /\ rc.start = d /\ rc.end = d
    /\ rc.delete_extra /\ rc.delete_max_remote # 0
    /\ remoteCount[d] > 0
    /\ DayRows(local0, d, rc.use_final) > remoteCount[d]
    /\ Cardinality(remoteEnum[d]) > rc.delete_max_remote

\* C3: a single-day leaf with local > remote > 0 whose enumerated remote id set
\* exceeds the cap issues no delete and makes reconcile return false, whatever
\* verify_after is.
C3_CapTripFails ==
    \A d \in Days : (Returned /\ CapTrips(d)) => (deleted = {} /\ local = local0 /\ ~ok)

ZeroRemote(d) ==
    /\ rc.start = d /\ rc.end = d
    /\ rc.delete_extra
    /\ remoteCount[d] = 0 /\ remoteEnum[d] = {}
    /\ local_vri_stats(local0, d) > 0
    /\ rc.delete_max_remote >= local_vri_stats(local0, d)

\* C4: a day with remote = 0 and n > 0 stale local rows, allowDelete and a cap
\* of at least n: all rows of the day are deleted, the day's count is 0 and
\* reconcile returns true.
C4_ZeroRemoteDeletesAll ==
    \A d \in Days : (Returned /\ ZeroRemote(d)) =>
        /\ ok
        /\ local_vri_stats(local, d) = 0
        /\ deleted = {<<d, i>> : i \in local_vri_ids_for_day(local0, d)}

C4_Witness ==
    \E d \in Days :
        /\ Returned /\ ZeroRemote(d) /\ local_vri_stats(local0, d) >= 2
        /\ Cardinality(local_vri_ids_for_day(local0, d)) >= 2
        /\ local_vri_stats(local, d) = 0

StagingFinal(d) == local_vri_rows_range(local, d, d, TRUE)
ProdFinal(d) == local_vri_rows_range(prod, d, d, TRUE)
ProdRaw(d) == local_vri_rows_range(prod, d, d, FALSE)
Consistent(d) == ProdFinal(d) = StagingFinal(d) /\ ProdRaw(d) = ProdFinal(d)
PromotedOk == PromoteReturned /\ ~pr.dry_run /\ pok

\* C5 as stated: after a promotion that is not a dry run returned true, on
\* every day of the range production FINAL = staging FINAL and production raw =
\* production FINAL, whatever verify and delete_before_insert are.
C5_Original ==
    PromotedOk => \A d \in Days : d \in pr.start..pr.end => Consistent(d)

\* C5 (amended): the same for a promotion with dedup on and at least one of
\* verify and delete_before_insert on.
C5_PromotionConsistent ==
    (PromotedOk /\ pr.dedup /\ (pr.verify \/ pr.delete_before_insert))
        => \A d \in Days : d \in pr.start..pr.end => Consistent(d)

C5_Witness ==
    /\ PromotedOk /\ pr.dedup /\ pr.verify /\ ~pr.delete_before_insert
    /\ pins # {}
    /\ \E d \in pins : StagingFinal(d) >= 2 /\ Consistent(d)

\* C11: promote_vri_range examines the days of [start,end] one by one in
\* ascending order whatever earlier days flagged, and once it has returned its
\* result is true exactly when no day flagged a failure.
C11_PromoteLoopsOn ==
    /\ plog.seen = [k \in 1..(cur - pr.start) |-> pr.start + k - 1]
    /\ plog.flagged \subseteq SeqRange(plog.seen)
    /\ PromoteReturned =>
          /\ SeqRange(plog.seen) = pr.start..pr.end
          /\ PromoteResult <=> plog.flagged = {}

C11_Witness ==
    /\ PromoteReturned
    /\ ~PromoteResult
    /\ \E d \in plog.flagged : d < pr.end /\ d + 1 \notin plog.flagged /\ d + 1 \in pins

\* C12: in a run with PROMOTE_VRI on, sync_state key transfer_vri is written
\* only by the promotion step, and only when promote_vri_range was called,
\* returned true and is not a dry run; the value written is the wall clock.
\* When promotion is skipped, returns false or is a dry run the key is unchanged.
C12_MarkerOnlyAfterPromotion ==
    [][block'.promote_vri =>
         IF block.pc = "mit" /\ block'.pc = "vri" /\ block'.promote = "true" /\ ~block'.dry_run
         THEN sync_state'["transfer_vri"] = Append(sync_state["transfer_vri"], now)
         ELSE sync_state'["transfer_vri"] = sync_state["transfer_vri"]]_vars

C12_Witness ==
    /\ block.pc = "vri" /\ block.promote_vri
    /\ block.promote = "true" /\ ~block.dry_run
    /\ Len(sync_state["transfer_vri"]) >= 2
    /\ sync_state["transfer_vri"][Len(sync_state["transfer_vri"])] = now

\* C6: promote_vri_range is called only in a run in which reconcile_vri_range was
\* executed and returned true and in which no backfill, registry sync or day
\* sync step raised.
C6_PromoteOnlyAfterUpstream ==
    (mlog.promote # "skipped") =>
        /\ mlog.reconcile = "true"
        /\ mlog.backfill # "raised"
        /\ mlog.mit # "raised"
        /\ mlog.vri # "raised"

\* C7: once the VRI step of a run is over, every due tier has been synced,
\* whether or not another tier or the registry sync raised.
C7_TiersIsolated ==
    (mpc \in {"transfer", "done"} /\ mlog.vri \in {"done", "raised"}) =>
        mlog.due \subseteq mlog.ran

Watermark(table) == StateGet(StateKey[table])

\* C8: the watermark stored for a table never decreases, and a transfer_table
\* run that finds no row beyond the watermark inserts nothing and writes nothing
\* to sync_state.
C8_WatermarkMonotone ==
    [][/\ \A t \in Tables : Watermark(t)' >= Watermark(t)
       /\ (tt' # tt /\ tt'.pc = "done" /\ tt'.pending = 0) =>
             (dst' = dst /\ sync_state' = sync_state /\ tt'.wrote = None)]_vars

C8_Witness ==
    /\ tt.pc = "done" /\ tt.pending = 0 /\ tt.last # None
    /\ Cardinality(SeqRange(sync_state[StateKey[tt.table]])) >= 2

\* C9: a transfer_table run that found pending rows has copied, in one
\* INSERT ... SELECT, every source row beyond the watermark it read, and has
\* written as the new watermark the largest ts_col of those rows.
C9_WatermarkIsMaxSourceTs ==
    (block.pc # "idle" /\ tt.pc = "done" /\ tt.pending > 0) =>
        /\ tt.copied = Pending(tt.table, tt.last)
        /\ tt.copied \subseteq dst[tt.table]
        /\ tt.wrote = SetMax(tt.copied)
        /\ tt.wrote \in src[tt.table]
        /\ sync_state[StateKey[tt.table]][Len(sync_state[StateKey[tt.table]])] = tt.wrote

C9_Witness ==
    /\ block.pc # "idle" /\ tt.pc = "done" /\ tt.pending >= 1 /\ tt.last # None
    /\ tt.wrote < now

\* C10: the value transfer_table reads as the verifications watermark is never
\* one that was written from the wall clock, so a finished
\* transfer_table(verifications) leaves no staging row out of production.
C10_NotConflated ==
    (block.pc = "vri" /\ tt.pc = "done" /\ tt.table = "verifications") =>
        src["verifications"] \subseteq dst["verifications"]

\* C13: against an unchanging remote day, the second sync_vri_day call leaves
\* the same surviving rows after the merge (one per vri_id, the same keys) as
\* the first call left, with skip_existing and without.
C13_SyncDayIdempotent ==
    (sy.pc = "done" /\ sy.call = 2) =>
        \A b \in BOOLEAN :
            /\ optimize_verifications_partition(st[b]) = optimize_verifications_partition(snap[b])
            /\ \A i \in Ids : optimize_verifications_partition(st[b])[SyncDay][i] <= 1

C13_Witness ==
    /\ sy.pc = "done" /\ sy.call = 2 /\ Len(sy.mapped) >= 2
    /\ st[FALSE] # snap[FALSE]
    /\ snap[TRUE][SyncDay] = [i \in Ids |-> 1]

\* C19: sync_vri_day with skip_existing and without leave the same keys in the
\* table for the day, whatever the table held and whatever the remote returns.
C19_ProbeIsOptimization ==
    local_vri_ids_for_day(st[TRUE], SyncDay) = local_vri_ids_for_day(st[FALSE], SyncDay)

C19_Witness ==
    /\ sy.pc = "done" /\ sy.call = 1 /\ Len(sy.mapped) = 1
    /\ st[TRUE][SyncDay] = [i \in Ids |-> 1]
    /\ st[FALSE][SyncDay] = [i \in Ids |-> IF i = 1 THEN 2 ELSE 1]

RECURSIVE CountIn(_, _)
\* pages of the sequence of cursors `cs` that hold document i
CountIn(cs, i) ==
    IF cs = <<>> THEN 0
    ELSE (IF i \in resp[Head(cs)].docs THEN 1 ELSE 0) + CountIn(Tail(cs), i)

\* the page at cursor c ends the loop
Stops(c) == resp[c].docs = {} \/ resp[c].next = Absent \/ resp[c].next = c

RECURSIVE ChainStops(_, _)
\* following the cursors from c, a page that ends the loop comes within n pages
ChainStops(c, n) ==
    n > 0 /\ (Stops(c) \/ ChainStops(resp[c].next, n - 1))

\* the pages of one call: from '*' along the next cursors, every non-empty one
\* mapped and inserted once, nothing fetched after a page that ends the loop
C20_Pages ==
    LET n == Len(sy.fetched) IN
    /\ n > 0 => sy.fetched[1] = Star
    /\ \A k \in 1..n :
          /\ k > 1 => sy.fetched[k] = resp[sy.fetched[k - 1]].next
          /\ k < n => ~Stops(sy.fetched[k])
    /\ sy.mapped = SelectSeq(sy.fetched, LAMBDA c : resp[c].docs # {})
    /\ \A i \in Ids :
          st[FALSE][SyncDay][i] = snap[FALSE][SyncDay][i] + CountIn(sy.fetched, i)
    /\ (sy.pc = "done" /\ n > 0) => Stops(sy.fetched[n])
    /\ (sy.pc = "fetch" /\ n > 0) =>
          ~Stops(sy.fetched[n]) /\ sy.cursor_mark = resp[sy.fetched[n]].next

\* C20: the cursor loop starts at '*', maps and inserts every non-empty page
\* once, the one whose next cursor repeats included, fetches nothing after an
\* empty page or an absent or repeated next cursor, and so returns whenever
\* the cursor chain has such a page.
C20_CursorLoop ==
    /\ []C20_Pages
    /\ ChainStops(Star, Cardinality(Cursors)) ~> sy.pc = "done"

C20_Witness ==
    /\ sy.pc = "done" /\ sy.call = 1 /\ Len(sy.fetched) = 3
    /\ resp[sy.fetched[3]].docs # {}
    /\ resp[sy.fetched[3]].next = sy.fetched[3]
    /\ Len(sy.mapped) = 3

RECURSIVE SumSeq(_)
SumSeq(q) == IF q = <<>> THEN 0 ELSE Head(q) + SumSeq(Tail(q))

\* C18: CH.insert sends the rows in chunks of batch_size; a chunk is executed
\* at most retries+1 times, the wait before its k-th retry is 1.5*k seconds
\* (15*k tenths), and a network fault that outlasts the retries is raised, the
\* remaining rows unsent.
C18_InsertRetries ==
    /\ \A k \in 1..Len(ins.chunks) :
          ins.chunks[k] = IF k * ins.batch_size <= ins.rows_data
                          THEN ins.batch_size
                          ELSE ins.rows_data - (k - 1) * ins.batch_size
    /\ ins.pc = "done" => SumSeq(ins.chunks) = ins.rows_data
    /\ ins.pc # "done" => ins.start = Len(ins.chunks) * ins.batch_size
    /\ ins.execs <= ins.retries + 1
    /\ ins.sleeps = [k \in 1..Len(ins.sleeps) |-> 15 * k]
    /\ ins.pc = "exec" => Len(ins.sleeps) = ins.execs
    /\ ins.attempt > ins.retries => ins.pc = "raised" /\ ins.fault = "network"
    /\ (ins.pc = "raised" /\ ins.fault = "network") =>
          /\ ins.execs = ins.retries + 1
          /\ Len(ins.sleeps) = ins.retries
          /\ SumSeq(ins.chunks) < ins.rows_data

C18_Witness ==
    /\ ins.pc = "raised" /\ ins.fault = "network"
    /\ ins.retries = 2 /\ ins.sleeps = <<15, 30>>
    /\ Len(ins.chunks) = 1 /\ ins.rows_data > 2 * ins.batch_size

\* the call on range f meets rows it may only delete
NeedsDelete(f) ==
    /\ f.start <= f.end
    /\ \/ RemoteRows(f) = 0 /\ LocalRows(f) > 0
       \/ IsLeaf(f) /\ LocalRows(f) > RemoteRows(f)

\* C15: with delete_extra off no step of reconcile_vri_range deletes a row
\* (none is logged as deleted and no day loses a version), and a call that
\* meets a range with remote 0 and local rows, or a leaf with more local rows
\* than remote, returns false, which makes the top-level result false.
C15_NoDeleteUnlessAllowed ==
    [][~rc.delete_extra =>
          /\ deleted' = {}
          /\ \A d \in Days, i \in Ids : local'[d][i] >= local[d][i]
          /\ (Running /\ NeedsDelete(Head(stack))) => (~ok' /\ stack' = Tail(stack))
          /\ ~ok => ~ok']_vars

C15_Witness ==
    /\ Returned /\ ~rc.delete_extra /\ ~ok
    /\ \E d \in rc.start..rc.end : synced[d] > 0
    /\ \E d \in rc.start..rc.end :
          /\ remoteCount[d] = 0 /\ local_vri_stats(local0, d) > 0
          /\ local[d] = local0[d]

\* the call on leaf f repairs it: a backfill, or a delete on a single day
LeafRepair(f) ==
    /\ f.start <= f.end
    /\ IsLeaf(f)
    /\ LocalRows(f) # RemoteRows(f)
    /\ \/ LocalRows(f) < RemoteRows(f)
       \/ rc.delete_extra /\ Span(f) = 1

\* C16: with verify_after, a leaf whose repair leaves its local count
\* different from its remote count returns false; the calls still to be
\* made for the other ranges stay in place and keep running, and the result
\* stays false up to the top-level return.
C16_FailedLeafGoesOn ==
    /\ [][/\ (rc.verify_after /\ Running /\ LeafRepair(Head(stack))
                /\ local_vri_rows_range(local', Head(stack).start, Head(stack).end, rc.use_final)
                     # RemoteRows(Head(stack)))
             => (~ok' /\ stack' = Tail(stack))
          /\ ~ok => ~ok']_vars
    /\ []((Running /\ ~ok) => ENABLED <<Next>>_vars)

C16_Witness ==
    /\ Returned /\ rc.verify_after /\ ~ok
    /\ \E d, e \in rc.start..rc.end :
          /\ d < e
          /\ synced[d] > 0 /\ local_vri_rows_range(local, d, d, rc.use_final) # remoteCount[d]
          /\ synced[e] > 0 /\ local_vri_rows_range(local, e, e, rc.use_final) = remoteCount[e]
          /\ local[e] # local0[e]

\* one day of the range has no local row, every other day's local count is
\* its remote count, and the remote has rows on every day
OneDayMissing(m) ==
    /\ m \in rc.start..rc.end
    /\ \A d \in rc.start..rc.end :
          /\ remoteCount[d] > 0
          /\ IF d = m THEN local_vri_stats(local0, d) = 0
             ELSE DayRows(local0, d, rc.use_final) = remoteCount[d]

\* C17: bisecting down to single days, a range with rows on every remote day
\* and exactly one day missing locally gets one sync_vri_day call, for that
\* day, and none for any other day.
C17_OnlyMissingDaySynced ==
    \A m \in Days :
        (Returned /\ rc.min_days = 1 /\ rc.max_depth = 20 /\ OneDayMissing(m)) =>
            synced = [d \in Days |-> IF d = m THEN 1 ELSE 0]

C17_Witness ==
    /\ Returned /\ rc.min_days = 1 /\ rc.max_depth = 20
    /\ rc.start = 1 /\ rc.end = NumDays
    /\ OneDayMissing(2)
    /\ synced[2] = 1

\* the table and the result of the run of the call from local0, had it not
\* been killed
Uninterrupted == reconcile_vri_range(local0, rc.start, rc.end, 0)

\* the step-by-step run and the run computed in one go agree
StepsAgree ==
    (Returned /\ ~intr) => (local = Uninterrupted.tbl /\ ok = Uninterrupted.res)

\* C14: a run killed after some of its store writes and rerun from the top
\* ends with the per-day local counts and the return value of the run that
\* was not killed.
C14_RerunAsUninterrupted ==
    (Returned /\ intr) =>
        /\ ok = Uninterrupted.res
        /\ \A d \in rc.start..rc.end :
              DayRows(local, d, rc.use_final) = DayRows(Uninterrupted.tbl, d, rc.use_final)

\* promote_vri_range leaves production as it is on the step it takes
ProdUntouched == prod' = prod /\ pdel' = pdel /\ pins' = pins

\* the counts of day cur after deduplication agree: staging = production,
\* and production holds one version per key
DedupConsistent ==
    /\ DayRows(local, cur, TRUE) = DayRows(prod, cur, TRUE)
    /\ DayRows(prod, cur, FALSE) = DayRows(prod, cur, TRUE)

C24_Original ==
    [][(PromoteRunning /\ pr.max_rows # 0 /\ test_rows > pr.max_rows)
          => (ProdUntouched /\ ~pok')]_vars

\* C24 amended: such a day is never deleted or inserted; it makes the result
\* false when it differs from production, and is passed over without a flag
\* when it is already consistent.
C24_OverCapDay ==
    [][(PromoteRunning /\ pr.max_rows # 0 /\ test_rows > pr.max_rows) =>
          /\ ProdUntouched
          /\ (test_rows # prod_rows_final \/ (pr.dedup /\ prod_rows_raw # prod_rows_final))
                => ~pok'
          /\ ~(test_rows # prod_rows_final \/ (pr.dedup /\ prod_rows_raw # prod_rows_final))
                => pok' = pok]_vars

C24_Witness ==
    /\ PromoteReturned /\ ~PromoteResult /\ pr.max_rows # 0 /\ ~pr.dry_run
    /\ \E d \in pr.start..pr.end :
          /\ local_vri_rows_range(local, d, d, pr.dedup) > pr.max_rows
          /\ d \in plog.flagged /\ d \notin pdel /\ d \notin pins
          /\ prod[d] = prod0[d] /\ prod[d] # local[d]

\* C25: in dry-run mode promote_vri_range deletes and inserts nothing in
\* production on any day, whatever the counts.
C25_DryRunTouchesNothing ==
    pr.dry_run => (prod = prod0 /\ pdel = {} /\ pins = {})

C25_Witness ==
    /\ PromoteReturned /\ pr.dry_run /\ pr.start < pr.end
    /\ \A d \in pr.start..pr.end :
          local_vri_rows_range(local, d, d, pr.dedup) # local_vri_rows_range(prod, d, d, pr.dedup)
    /\ \E d \in pr.start..pr.end : local_vri_rows_range(prod, d, d, pr.dedup) > 0

\* the dedicated count operation exists and returns a number
CountYields == cnt.has_count /\ cnt.count_result.kind = "int"

\* the dedicated operation is missing or fails
CountMissingOrFails == ~cnt.has_count \/ cnt.count_result.kind \in {"fault", "text"}

\* the zero-row page fetch exists and returns a total
CursorYields == cnt.has_cursor /\ cnt.cursor_result.kind = "int"

CntEnded == cnt.pc \in {"returned", "raised"}

\* the claim on the clients whose operations raise or return a number
CountOrRaiseWithoutNone ==
    (CntEnded /\ cnt.count_result.kind # "none" /\ cnt.cursor_result.kind # "none") =>
        IF CountYields THEN cnt.pc = "returned" /\ cnt.value = cnt.count_result.n
        ELSE IF CursorYields THEN cnt.pc = "returned" /\ cnt.value = cnt.cursor_result.n
        ELSE cnt.pc = "raised"

\* C21: remote_vri_count returns the result of the dedicated count when it
\* succeeds, the total of the zero-row page fetch when the dedicated count
\* is missing or fails, and raises, never returning 0, when neither path
\* yields a count.
C21_CountOrRaise ==
    CntEnded =>
        /\ CountYields => (cnt.pc = "returned" /\ cnt.value = cnt.count_result.n)
        /\ (CountMissingOrFails /\ CursorYields)
              => (cnt.pc = "returned" /\ cnt.value = cnt.cursor_result.n)
        /\ (~CountYields /\ ~CursorYields) => cnt.pc = "raised"

\* the syncs started so far, as numbered in sch.runs
SchRuns == 1..Len(sch.runs)

\* the last sync started for tier t, 0 if none
LastRunOf(t) ==
    IF \E k \in SchRuns : sch.runs[k].tier = t
    THEN SetMax({k \in SchRuns : sch.runs[k].tier = t}) ELSE 0

ScheduleKept ==
    \* a sync starts only with no recorded last run or with the interval elapsed
    /\ \A k \in SchRuns :
          LET r == sch.runs[k] IN r.last = None \/ r.at - r.last >= sch.every[r.tier]
    \* the entries written are the completion times of the completed syncs
    /\ \A t \in SchTiers :
          sch.last[t] = SelectSeq([k \in SchRuns |-> IF sch.runs[k].tier = t
                                                   THEN sch.runs[k].done ELSE None],
                                  LAMBDA x : x # None)
    \* completed at time t: no sync in an invocation earlier than t + interval
    /\ \A j, k \in SchRuns :
          (j < k /\ sch.runs[j].tier = sch.runs[k].tier /\ sch.runs[j].done # None)
             => sch.runs[k].at >= sch.runs[j].done + sch.every[sch.runs[k].tier]
    \* raised: due again in the next invocation
    /\ \A t \in SchTiers :
          (SchLooping /\ sch.tier = t /\ LastRunOf(t) # 0
             /\ sch.runs[LastRunOf(t)].done = None /\ sch.runs[LastRunOf(t)].at < sch.now)
             => should_run(t, FALSE)

\* the schedule is kept as long as no sync was started on a failed read
ScheduleKeptWithoutMisread == ~sch.misread => (sch.pc # "off" => ScheduleKept)

\* C22: a tier syncs only with no recorded last run or now - lastRun >=
\* interval, its entry is written only when its sync completed, so a tier
\* completed at t does not sync in an invocation earlier than t + interval,
\* and a tier whose sync raised is due again in the next invocation.
C22_ScheduleKept == sch.pc # "off" => ScheduleKept

\* the explicit country of a list element: its first country field with text
Explicit(d) == FirstKey(d, 1)

\* C27: for a list-shaped source the country is the explicit country of the
\* first element that has a non-empty one; with no such element it is the
\* keyword match on the manufacturer name, "unspecified" only for an empty
\* name.
C27_ListCountry ==
    (ctry.pc = "done" /\ ctry.source.kind = "list") =>
        LET items == ctry.source.items
            hits == {k \in 1..Len(items) : Explicit(items[k]) # ""}
        IN IF hits # {}
           THEN ctry.result = Explicit(items[CHOOSE k \in hits : \A j \in hits : k <= j])
           ELSE /\ ctry.result = detect_country(ctry.fallback_name)
                /\ ctry.result = Unspecified => ctry.fallback_name = {}

\* C30: sync_vri_range goes through the days in ascending order and calls
\* sync_vri_day for a day exactly when its remote count is above 0 and its
\* local raw count is below the remote count; every other day keeps its rows.
C30_RangeSyncsDueDays ==
    sr.pc # "off" =>
        /\ sr.calls = SelectSeq([k \in 1..(sr.cur - sr.start) |-> sr.start + k - 1],
                                LAMBDA d : remoteCount[d] > 0
                                           /\ DayRows(local0, d, FALSE) < remoteCount[d])
        /\ \A d \in Days : d \notin SeqRange(sr.calls) => local[d] = local0[d]
        /\ \A d \in SeqRange(sr.calls) : local[d] # local0[d]

C30_Witness ==
    /\ sr.pc = "done" /\ sr.start = 1 /\ sr.end = 3
    /\ sr.calls = <<1, 3>>
    /\ remoteCount[2] > 0

\* C29: a non-leaf range of span >= 2 is split at mid = start + floor((span-1)/2)
\* into the non-empty, disjoint ranges [start,mid] and [mid+1,end] that cover
\* it exactly; the ranges in hand always tile the rest of the original range
\* in ascending order, so every day is handled by exactly one leaf; and the
\* recursion terminates.
DaysOf(f) == f.start..f.end

TilesFrom(frames, first, last) ==
    /\ frames # <<>>
    /\ frames[1].start = first
    /\ frames[Len(frames)].end = last
    /\ \A k \in 1..Len(frames) : frames[k].start <= frames[k].end
    /\ \A k \in 1..(Len(frames) - 1) : frames[k + 1].start = frames[k].end + 1

SplitAtMid ==
    LET f == Head(stack)
        span == f.end - f.start + 1
        mid == f.start + ((span - 1) \div 2)
        left == stack'[1]
        right == stack'[2]
    IN /\ span >= 2
       /\ Len(stack') = Len(stack) + 1
       /\ SubSeq(stack', 3, Len(stack')) = Tail(stack)
       /\ <<left.start, left.end>> = <<f.start, mid>>
       /\ <<right.start, right.end>> = <<mid + 1, f.end>>
       /\ DaysOf(left) # {} /\ DaysOf(right) # {}
       /\ DaysOf(left) \cap DaysOf(right) = {}
       /\ DaysOf(left) \cup DaysOf(right) = DaysOf(f)

HandledOrTiled ==
    LET f == Head(stack)
        made == Len(stack') - Len(stack) + 1
    IN \/ stack' = Tail(stack)
       \/ /\ made >= 2
          /\ SubSeq(stack', made + 1, Len(stack')) = Tail(stack)
          /\ TilesFrom(SubSeq(stack', 1, made), f.start, f.end)

C29_BisectionPartitions ==
    /\ [][Running => /\ HandledOrTiled
                     /\ (~IsLeaf(Head(stack)) /\ stack' # Tail(stack)) => SplitAtMid]_vars
    /\ [](Running => \E first \in Days : TilesFrom(stack, first, rc.end))
    /\ <>Returned

C29_Witness ==
    /\ rc.start = 1 /\ rc.end = 3
    /\ stack = <<Frame(1, 1, 2), Frame(2, 2, 2), Frame(3, 3, 1)>>

\* C26: a document whose primary identifier is missing or blank (vri_id of a
\* verification; number of a registry entry, in the details and in the list
\* document) gives no inserted row and raises nothing, and the other documents
\* of the page are still mapped and inserted.
Blank(v) == v \in {NoValue, "", " "}

\* the identifier the document resolves to, "" when it has none
Resolved(e) ==
    LET v == IF pg.kind = "mit" /\ e.details.number \notin {NoValue, ""}
             THEN e.details.number
             ELSE e.doc.id
    IN IF Blank(v) THEN "" ELSE v

RowsOf(entries) ==
    LET kept == SelectSeq(entries, LAMBDA e : e.row # NoRow)
    IN [k \in 1..Len(kept) |-> kept[k].row]

C26_NoIdNoRowNoError ==
    pg.pc # "off" =>
      /\ \A k \in 1..Len(pg.seen) :
           LET e == pg.seen[k] IN
             /\ Resolved(e) = "" => e.row = NoRow
             /\ (Resolved(e) = "" /\ k = Len(pg.seen)) => pg.pc # "raised"
             /\ (Resolved(e) # "" /\ ~(k = Len(pg.seen) /\ pg.pc = "raised"))
                    => e.row = Resolved(e)
             /\ e.doc = pg.todo[k]
      /\ \A k \in 1..Len(pg.inserted) : ~Blank(pg.inserted[k])
      /\ pg.pc = "done" =>
           /\ Len(pg.seen) = Len(pg.todo)
           /\ pg.inserted = RowsOf(pg.seen)
           /\ \A k \in 1..Len(pg.docs) :
                (~Blank(pg.docs[k].id) /\ pg.docs[k].id \notin pg.stored)
                    => pg.docs[k] \in SeqRange(pg.todo)

C26_Witness ==
    /\ pg.pc = "done"
    /\ pg.kind = "mit"
    /\ Len(pg.docs) = 3
    /\ <<pg.docs[1].id, pg.docs[2].id, pg.docs[3].id>> = <<"k1", " ", "k2">>
    /\ Len(pg.seen) = 3
    /\ pg.seen[2].details = [number |-> " ", production_type |-> "x"]
    /\ pg.inserted = <<"k1", "k2">>

\* C28: a failed detail fetch does not abort the run: the entry is still mapped
\* from its list document and the remaining entries and pages are processed;
\* a failed page fetch ends the run with the fault, and nothing runs after it.
MitAllNumbers == UNION {{mit.pages[p][k].id : k \in 1..Len(mit.pages[p])} : p \in 1..Len(mit.pages)}
MitDetailFailed == \E k \in 1..Len(mit.log) : mit.log[k].failed

C28_DetailFaultTolerated ==
    mit.pc # "off" =>
      /\ mit.pc = "raised" => mit.fault \in {"page", "row"}
      /\ (mit.pc = "raised" /\ mit.fault = "row") => ~mit.log[Len(mit.log)].failed
      /\ mit.fault = "page" => (mit.pc = "raised" /\ ~ENABLED NextMit)
      /\ \A k \in 1..Len(mit.log) :
           mit.log[k].failed => mit.log[k].number \in mit.stored \cup SeqRange(mit.buffer)
      /\ (mit.pc = "done" /\ ~mit.stopped) => MitAllNumbers \subseteq mit.stored

C28_Witness ==
    /\ mit.pc = "done"
    /\ ~mit.stopped
    /\ Len(mit.pages) = 2
    /\ Len(mit.log) = 3
    /\ mit.log[1].failed /\ mit.log[1].p = 1
    /\ mit.log[2].p = 1 /\ mit.log[3].p = 2
    /\ mit.stored = {"k1", "k2"}

\* a run whose second page fetch fails after a tolerated detail fault
PageFaultAfterDetailFault ==
    /\ mit.pc = "raised"
    /\ mit.fault = "page"
    /\ mit.p = 2
    /\ MitDetailFailed

\* C31: delete_vri_extras_for_day(d) deletes exactly the local ids of day d
\* that the remote enumeration of day d does not hold, on day d only, and
\* returns their number; when there is none, or a cap trips, the table is left
\* as it was (no delete, no compaction) and 0 is returned.
DlLocalIds == {i \in Ids : local0[dl.d][i] > 0}
DlCapTrips ==
    /\ dl.max_remote > 0
    /\ \/ dl.remote_rows > dl.max_remote
       \/ Cardinality(remoteEnum[dl.d]) > dl.max_remote
DlExpected == IF DlCapTrips \/ dl.read_failed THEN {} ELSE DlLocalIds \ remoteEnum[dl.d]

C31_DeletesExactlyExtras ==
    dl.pc = "done" =>
      /\ dl.issued = {<<dl.d, i>> : i \in DlExpected}
      /\ dl.ret = Cardinality(DlExpected)
      /\ \A i \in Ids : local[dl.d][i] = 0 <=> (i \in DlExpected \/ local0[dl.d][i] = 0)
      /\ \A d \in Days : \A i \in Ids :
           (d # dl.d \/ i \notin DlExpected) => (local[d][i] > 0 <=> local0[d][i] > 0)
      /\ (DlExpected = {} \/ ~dl.optimize_partition) =>
           \A d \in Days : \A i \in Ids :
             (d # dl.d \/ i \notin DlExpected) => local[d][i] = local0[d][i]

C31_Witness ==
    /\ dl.pc = "done"
    /\ dl.max_remote > 0
    /\ dl.optimize_partition
    /\ dl.ret = 1
    /\ remoteEnum[dl.d] # {}
    /\ \E i \in Ids : local0[dl.d][i] > 1 /\ local[dl.d][i] = 1

\* a call that found nothing to delete on a partition holding duplicates
NothingToDelete ==
    /\ dl.pc = "done"
    /\ dl.optimize_partition
    /\ dl.ret = 0
    /\ ~dl.read_failed
    /\ \E d \in Days, i \in Ids : local[d][i] > 1

\* the rows a finished transfer_table run was to handle and did not copy
LeftBehind == {ts \in src[tt.table] \ dst[tt.table] : tt.last # None => ts > tt.last}

\* without inserts during the run nothing beyond the new watermark is left
NoRowSkipped ==
    (tt.pc = "done" /\ tt.wrote # None) => \A ts \in LeftBehind : ts > tt.wrote

\* C32 as stated: with rows inserted into the source during a transfer_table
\* run, every source row the run did not copy has a timestamp strictly greater
\* than the watermark the run wrote.
C32_NoRowSkipped ==
    (block.pc # "idle" /\ tt.pc = "done" /\ tt.wrote # None) =>
        \A ts \in LeftBehind : ts > tt.wrote

\* C33 as stated: with verify_after, a reconcile that returned true leaves the
\* local count of the range, measured as the run measures it, equal to the
\* remote count of the range, also when optimize_partitions compacts the month.
C33_TrueMeansEqualTotals ==
    (Returned /\ rc.verify_after /\ ok) =>
        local_vri_rows_range(local, rc.start, rc.end, rc.use_final)
            = remote_vri_count(rc.start, rc.end)

\* the same without a compaction that can change the counts
TrueMeansEqualTotalsUncompacted ==
    (Returned /\ rc.verify_after /\ ok /\ (rc.use_final \/ ~rc.optimize_partitions)) =>
        local_vri_rows_range(local, rc.start, rc.end, rc.use_final)
            = remote_vri_count(rc.start, rc.end)

\* the calls a step makes: the frames put in front of the rest of the stack
Made == SubSeq(stack', 1, Len(stack') - Len(stack) + 1)

InOriginal(f) == rc.start <= f.start /\ f.start <= f.end /\ f.end <= rc.end

NoBisectionAtLimit ==
    LET f == Head(stack) IN
      (f.depth >= rc.max_depth /\ stack' # Tail(stack)) =>
          /\ rc.delete_extra
          /\ LocalRows(f) > RemoteRows(f)
          /\ Len(Made) = Span(f)
          /\ \A k \in 1..Len(Made) : Made[k].start = Made[k].end

\* C34 as stated: every call has a non-empty sub-range of the original range
\* and a depth of at most max_depth + 1, and at depth >= max_depth there is no
\* bisection, only the per-day repair of a leaf.
C34_Original ==
    /\ [][Running => NoBisectionAtLimit]_vars
    /\ [](\A k \in 1..Len(stack) : InOriginal(stack[k]) /\ stack[k].depth <= rc.max_depth + 1)

\* C34 (amended): the same for max_depth >= 0.
C34_DepthBounded ==
    /\ [][Running => NoBisectionAtLimit]_vars
    /\ [](\A k \in 1..Len(stack) :
            /\ InOriginal(stack[k])
            /\ rc.max_depth >= 0 => stack[k].depth <= rc.max_depth + 1)

C34_Witness ==
    /\ rc.max_depth = 1
    /\ Len(stack) = 3
    /\ stack[1] = Frame(1, 1, 2)
    /\ stack[2] = Frame(2, 2, 2)
    /\ stack[3] = Frame(3, 3, 1)

\* C35 as stated: a day whose staging count could not be read keeps its
\* production rows (checked on the days that do hold staging rows, where a
\* count of zero is not the truth).
C35_FailedCountKeepsProd ==
    \A d \in pf : local_vri_stats(local, d) > 0 => prod[d] = prod0[d]

\* C36 as stated: after sync_vri_range returned, every key the remote reports
\* for a day of the range is in the local table for that day, also when the
\* table held unmerged duplicate versions of other keys before the run
\* (checked on the days that held no key unknown to the remote).
C36_EveryRemoteKeyPresent ==
    sr.pc = "done" =>
        \A d \in sr.start..sr.end :
            local_vri_ids_for_day(local0, d) \subseteq remoteEnum[d]
                => remoteEnum[d] \subseteq local_vri_ids_for_day(local, d)

\* the same for the days whose rows were all of keys the remote holds, one
\* version each, before the run
EveryRemoteKeyPresentOnCleanDays ==
    sr.pc = "done" =>
        \A d \in sr.start..sr.end :
            (\A i \in Ids : local0[d][i] <= (IF i \in remoteEnum[d] THEN 1 ELSE 0))
                => remoteEnum[d] \subseteq local_vri_ids_for_day(local, d)

\* C37: a deletion driven by reconcile never deletes a local row whose key the
\* remote still holds for that day, also when the remote's cursor stops
\* advancing or a page comes back empty before every document was returned.
C37_HeldKeysSurvive ==
    dl.pc = "done" => \A i \in dl.held : <<dl.d, i>> \notin dl.issued

\* with a walk that returned every key the remote holds, no held key is deleted
HeldKeysSurviveCompleteWalk ==
    (dl.pc = "done" /\ remoteEnum[dl.d] = dl.held) =>
        \A i \in dl.held : <<dl.d, i>> \notin dl.issued

\* a complete walk was followed by a deletion
CompleteWalkDeleted ==
    dl.pc = "done" /\ remoteEnum[dl.d] = dl.held /\ dl.held # {} /\ dl.issued # {}

\* a row of key transfer_prod is added to SyncState in this step
GateWritten == sync_state'["transfer_prod"] # sync_state["transfer_prod"]

\* C38: the run-gate entry transfer_prod is written only when the block fully
\* succeeded: not in a run whose promotion was skipped or returned false, and
\* not in a run where a transfer step raised.
C38_GateOnlyOnSuccess ==
    [][GateWritten => block.promote \notin {"skipped", "false"}]_vars

\* the gate is written only by a block that ran to its end: a raised step
\* leaves transfer_prod as it was
GateOnlyAtEndOfBlock ==
    [][GateWritten => (block.pc = "vri" /\ tt.pc = "done" /\ block'.pc = "idle")]_vars

\* numbers whose detail fetch failed in the first run
FailedFirst == {mit.first[k].number : k \in {j \in 1..Len(mit.first) : mit.first[j].failed}}
\* numbers the second run built a row for
TakenUpAgain == {mit.log[k].number : k \in 1..Len(mit.log)}
\* the second run met a healthy remote and came to its end
HealthyRerun ==
    /\ mit.pc = "done"
    /\ mit.run = 2
    /\ \A k \in 1..Len(mit.log) : ~mit.log[k].failed

\* C39: an entry whose detail fetch failed in one run of sync_mit_registry is
\* taken up again by a later run against a healthy remote, which fetches its
\* details and stores a row built from them.
C39_FailedDetailsRefetched ==
    (mit.pc # "off" /\ HealthyRerun) => FailedFirst \subseteq TakenUpAgain

\* what the later run does take up again: the entries the first run did not
\* store, when it walks the whole listing
UnstoredTakenUpAgain ==
    (mit.pc # "off" /\ HealthyRerun /\ ~mit.stop_on_existing /\ mit.ends) =>
        (FailedFirst \ mit.stored1) \subseteq TakenUpAgain

\* a first run lost an entry with failed details to a later fault, the second run took it up
UnstoredWasTakenUp ==
    /\ mit.pc # "off"
    /\ HealthyRerun
    /\ (FailedFirst \ mit.stored1) \cap TakenUpAgain # {}

====
